---- MODULE Spec2Model ----
(***************************************************************************)
(* State-machine model of the generic sync orchestrator of pwsafe-service  *)
(* (backend/internal/service/syncable_safes_service.go): the per-backend   *)
(* SyncableSafesService with its sync lock, the periodic loop, the         *)
(* persisted .config.json and the local mirror tree.                       *)
(*                                                                         *)
(* Paths are sequences of path components; a component (a file or          *)
(* directory name) is a sequence of tokens, so that prefixes ("." for      *)
(* hidden names) and suffixes (".psafe3", ".tmp") are computed and not     *)
(* looked up.                                                              *)
(***************************************************************************)
EXTENDS Integers, Sequences, FiniteSets, TLC

None == "none"

\* ------------------------------------------------------------------------
\* Bounds of the model
\* ------------------------------------------------------------------------
\* number of events (API requests, authorization callbacks, clock ticks, I/O
\* faults) of a run whose requests overlap
MaxOps == 3
\* the same number in a run that serves one request at a time
MaxSeqOps == 4
\* the same of a run in which nothing but Sync is called
MaxSyncOps == 4
\* the same of a run of the OneDrive provider alone: calls of the provider,
\* clock ticks and restarts of the process
MaxODOps == 5
MaxRefreshOps == 3
MaxStopOps == 3

\* ------------------------------------------------------------------------
\* Names and paths
\* ------------------------------------------------------------------------
\* tokens that begin with the character '.'
DotTokens ==
    {".", "..", ".psafe3", ".PSAFE3", ".tmp", ".config", ".json", ".tokens", ".code_verifier"}

\* strings.HasPrefix(name, ".")
HasDotPrefix(name) == Len(name) > 0 /\ name[1] \in DotTokens

\* strings.ToLower on one token
ToLowerTok(t) == IF t = ".PSAFE3" THEN ".psafe3" ELSE t

\* strings.HasSuffix(strings.ToLower(name), ".psafe3")
HasPsafe3Suffix(name) == Len(name) > 0 /\ ToLowerTok(name[Len(name)]) = ".psafe3"

\* number of bytes of a token
TokLen(t) ==
    CASE t = "." -> 1
      [] t = ".." -> 2
      [] t = ".psafe3" -> 7
      [] t = ".PSAFE3" -> 7
      [] t = ".tmp" -> 4
      [] t = ".config" -> 7
      [] t = ".json" -> 5
      [] t = "data" -> 4
      [] t = "mock" -> 4
      [] t = "Documents" -> 9
      [] t = "Passwords" -> 9
      [] OTHER -> 1

RECURSIVE NameLen(_)
NameLen(name) == IF name = <<>> THEN 0 ELSE TokLen(Head(name)) + NameLen(Tail(name))

\* len() of the string of an absolute cleaned path: "/" + name for each component
RECURSIVE StrLen(_)
StrLen(path) == IF path = <<>> THEN 0 ELSE 1 + NameLen(Head(path)) + StrLen(Tail(path))

\* filepath.Clean of an absolute path given as its components: empty and "."
\* components are dropped, ".." removes the component before it (none at the root)
RECURSIVE CleanFrom(_, _)
CleanFrom(acc, rest) ==
    IF rest = <<>> THEN acc
    ELSE LET c == Head(rest) IN
         IF c = <<>> \/ c = <<".">> THEN CleanFrom(acc, Tail(rest))
         ELSE IF c = <<"..">>
              THEN CleanFrom(IF acc = <<>> THEN acc ELSE SubSeq(acc, 1, Len(acc) - 1), Tail(rest))
              ELSE CleanFrom(Append(acc, c), Tail(rest))

Clean(path) == CleanFrom(<<>>, path)

\* filepath.Join: the elements separated by "/" and then cleaned
Join(a, b) == Clean(a \o b)

\* filepath.Dir of a cleaned absolute path
Dir(path) == IF path = <<>> THEN <<>> ELSE SubSeq(path, 1, Len(path) - 1)

\* d.Name() / filepath.Base
Base(path) == IF path = <<>> THEN <<>> ELSE path[Len(path)]

\* strings.TrimPrefix(p, "/") on a slash-separated string given as its components
\* (a string begins with "/" exactly when its first component is empty and
\* another component follows it)
TrimPrefixSep(p) == IF Len(p) >= 2 /\ p[1] = <<>> THEN Tail(p) ELSE p

\* localPath + ".tmp"
TmpPathSame(path) == path
TmpPath(path) == SubSeq(path, 1, Len(path) - 1) \o <<Append(Base(path), ".tmp")>>

IsPrefix(a, b) == Len(a) <= Len(b) /\ SubSeq(b, 1, Len(a)) = a

Prefixes(path) == {SubSeq(path, 1, k) : k \in 0..Len(path)}

\* ------------------------------------------------------------------------
\* Layout of the service on disk
\* ------------------------------------------------------------------------
safesDirectory == << <<"data">> >>
ProviderID == <<"mock">>

providerDir == Join(safesDirectory, <<ProviderID>>)
configPath == Join(providerDir, << <<".config", ".json">> >>)

getLocalPathFlat(file) == Join(providerDir, <<file.Name>>)
getLocalPath(file) ==
    LET relativePath == TrimPrefixSep(file.Path)
    IN  Join(providerDir, relativePath \o <<file.Name>>)

\* ------------------------------------------------------------------------
\* File contents
\* ------------------------------------------------------------------------
\* a file of zero bytes (just created or truncated)
Empty == [kind |-> "empty"]
\* a file holding the first bytes of a stream only
Partial == [kind |-> "partial"]
\* bytes of two overlapping writers, not a JSON document
Garbage == [kind |-> "garbage"]
\* the complete bytes the provider served for a file id at a time
Content(id, t) == [kind |-> "data", id |-> id, ver |-> t]

\* time.Time.Format(time.RFC3339): the empty string is <<>>, a formatted time <<t>>
FormatRFC3339(t) == <<t>>
NoTime == <<>>

\* SyncConfig{Files: []SelectedFile{}}
EmptyConfig == [Files |-> <<>>, LastSyncTime |-> NoTime]

\* a byte that is no valid UTF-8 sequence, and the replacement rune U+FFFD
BadByte == "0xFF"
ReplacementRune == "U+FFFD"

\* encoding/json writes and reads every string coerced to valid UTF-8: the ID
\* (one token), a name (tokens), a path (components)
ToValidUTF8Tok(t) == IF t = BadByte THEN ReplacementRune ELSE t
RECURSIVE ToValidUTF8(_)
ToValidUTF8(name) ==
    IF name = <<>> THEN <<>>
    ELSE <<ToValidUTF8Tok(Head(name))>> \o ToValidUTF8(Tail(name))
RECURSIVE ToValidUTF8Path(_)
ToValidUTF8Path(path) ==
    IF path = <<>> THEN <<>>
    ELSE <<ToValidUTF8(Head(path))>> \o ToValidUTF8Path(Tail(path))

\* a SelectedFile as a JSON object, by its json tags; as if Path were tagged "-"
marshalFileNoPath(file) ==
    [id |-> ToValidUTF8Tok(file.ID), name |-> ToValidUTF8(file.Name),
     selected |-> file.Selected]
marshalFile(file) ==
    [id |-> ToValidUTF8Tok(file.ID), name |-> ToValidUTF8(file.Name),
     path |-> ToValidUTF8Path(file.Path), selected |-> file.Selected]

\* a JSON object decoded into a zero SelectedFile: a key that is missing leaves
\* the zero value of its field
unmarshalFile(obj) ==
    [ID |-> IF "id" \in DOMAIN obj THEN ToValidUTF8Tok(obj.id) ELSE "",
     Name |-> IF "name" \in DOMAIN obj THEN ToValidUTF8(obj.name) ELSE <<>>,
     Path |-> IF "path" \in DOMAIN obj THEN ToValidUTF8Path(obj.path) ELSE <<>>,
     Selected |-> IF "selected" \in DOMAIN obj THEN obj.selected ELSE FALSE]

RECURSIVE marshalFiles(_)
marshalFiles(files) ==
    IF files = <<>> THEN <<>>
    ELSE <<marshalFile(Head(files))>> \o marshalFiles(Tail(files))
RECURSIVE unmarshalFiles(_)
unmarshalFiles(array) ==
    IF array = <<>> THEN <<>>
    ELSE <<unmarshalFile(Head(array))>> \o unmarshalFiles(Tail(array))

\* json.MarshalIndent(config): lastSyncTime has omitempty
MarshalIndent(config) ==
    [kind |-> "json",
     doc |-> IF config.LastSyncTime = NoTime
             THEN [files |-> marshalFiles(config.Files)]
             ELSE [files |-> marshalFiles(config.Files),
                   lastSyncTime |-> config.LastSyncTime]]

\* json.Unmarshal into a zero SyncConfig: ok is FALSE when the bytes are no JSON document
Unmarshal(data) ==
    IF data.kind # "json"
    THEN [ok |-> FALSE, config |-> EmptyConfig]
    ELSE [ok |-> TRUE,
          config |-> [Files |-> IF "files" \in DOMAIN data.doc
                                THEN unmarshalFiles(data.doc.files) ELSE <<>>,
                      LastSyncTime |-> IF "lastSyncTime" \in DOMAIN data.doc
                                       THEN data.doc.lastSyncTime ELSE NoTime]]

\* ------------------------------------------------------------------------
\* The file system: the set of directories and the content of each regular
\* file; fds[path] is the set of goroutines that hold the file open for writing
\* ------------------------------------------------------------------------
EmptyFS == [dirs |-> {<<>>} \cup Prefixes(safesDirectory), files |-> <<>>, fds |-> <<>>]

IsDir(f, path) == path \in f.dirs
IsFile(f, path) == path \in DOMAIN f.files
Exists(f, path) == IsDir(f, path) \/ IsFile(f, path)

\* the entries of directory d
Entries(f, d) == {x \in f.dirs \cup DOMAIN f.files : x # d /\ Dir(x) = d}

Restrict(fn, S) == [x \in S |-> fn[x]]
Put(fn, k, v) == [x \in DOMAIN fn \cup {k} |-> IF x = k THEN v ELSE fn[x]]
Drop(fn, k) == Restrict(fn, DOMAIN fn \ {k})

\* os.MkdirAll succeeds unless a component of the path is a regular file
MkdirAllOK(f, path) == \A q \in Prefixes(path) : ~IsFile(f, q)
MkdirAll(f, path) == [f EXCEPT !.dirs = @ \cup Prefixes(path)]

\* os.Remove: a regular file, or an empty directory
RemoveOK(f, path) ==
    \/ IsFile(f, path)
    \/ IsDir(f, path) /\ Entries(f, path) = {} /\ path # <<>>
Remove(f, path) ==
    IF IsFile(f, path)
    THEN [f EXCEPT !.files = Drop(@, path), !.fds = Drop(@, path)]
    ELSE [f EXCEPT !.dirs = @ \ {path}]

\* os.Create / os.OpenFile(O_WRONLY|O_CREATE|O_TRUNC) by goroutine p
CreateOK(f, path) == IsDir(f, Dir(path)) /\ ~IsDir(f, path)
Create(f, path, p) ==
    [f EXCEPT !.files = Put(@, path, Empty),
              !.fds = Put(@, path, (IF path \in DOMAIN @ THEN @[path] ELSE {}) \cup {p})]

\* the goroutine still writes to the file that the path names
HoldsOpen(f, path, p) == IsFile(f, path) /\ p \in f.fds[path]

\* file.Close
Close(f, path, p) ==
    IF HoldsOpen(f, path, p) THEN [f EXCEPT !.fds[path] = @ \ {p}] ELSE f

\* the bytes of the file after p wrote `data` at offset 0: `torn` chooses the
\* outcome when another writer's bytes are already there
WriteAt(f, path, p, data, torn) ==
    IF ~HoldsOpen(f, path, p) THEN f
    ELSE [f EXCEPT !.files[path] = IF @ # Empty /\ torn THEN Garbage ELSE data]

\* os.Rename of a regular file
RenameOK(f, old, new) == IsFile(f, old) /\ IsDir(f, Dir(new)) /\ ~IsDir(f, new)
Rename(f, old, new) ==
    [f EXCEPT !.files = Drop(Put(@, new, @[old]), old),
              !.fds = Drop(Put(@, new, @[old]), old)]

\* ------------------------------------------------------------------------
\* Helpers of the service that only touch the file system
\* ------------------------------------------------------------------------
\* loadConfig: a missing file is the empty config, any other read error or a
\* decoding error is an error (the config returned with it is nil)
loadConfig(f) ==
    IF IsFile(f, configPath) THEN Unmarshal(f.files[configPath])
    ELSE IF IsDir(f, configPath) \/ ~MkdirAllOK(f, providerDir)
         THEN [ok |-> FALSE, config |-> EmptyConfig]
         ELSE [ok |-> TRUE, config |-> EmptyConfig]

\* cleanupEmptyParentDirs: remove dir and its ancestors while they are empty,
\* never baseDir
cleanupEmptyParentDirsNone(f, dir, baseDir) == f
RECURSIVE cleanupEmptyParentDirs(_, _, _)
cleanupEmptyParentDirs(f, dir, baseDir) ==
    IF dir # baseDir /\ StrLen(dir) > StrLen(baseDir) /\ RemoveOK(f, dir)
    THEN cleanupEmptyParentDirs(Remove(f, dir), Dir(dir), baseDir)
    ELSE f

\* the regular files filepath.WalkDir(providerDir) visits
Walked(f) ==
    IF IsDir(f, providerDir)
    THEN {x \in DOMAIN f.files : IsPrefix(providerDir, x)}
    ELSE {}

\* os.Remove of each file of the set `todo` the walk visits, pruning the
\* directories a removal leaves empty (removals of distinct files commute, so the
\* order of the walk does not show in the result)
RECURSIVE RemoveAndPrune(_, _)
RemoveAndPrune(f, todo) ==
    IF todo = {} THEN f
    ELSE LET x == CHOOSE y \in todo : TRUE
             g == IF RemoveOK(f, x)
                  THEN cleanupEmptyParentDirs(Remove(f, x), Dir(x), providerDir)
                  ELSE f
         IN  RemoveAndPrune(g, todo \ {x})

selectedPathsOfNone(selectedFiles) == {}
selectedPathsOf(selectedFiles) == {getLocalPath(selectedFiles[k]) : k \in DOMAIN selectedFiles}

\* cleanupUnselectedFiles: the walk skips directories and hidden names and
\* removes every .psafe3 file whose path is not a selected file's local path
cleanupUnselectedFilesHidden(f, selectedFiles) ==
    RemoveAndPrune(f, {x \in Walked(f) :
                          /\ HasPsafe3Suffix(Base(x))
                          /\ x \notin selectedPathsOf(selectedFiles)})
cleanupUnselectedFiles(f, selectedFiles) ==
    RemoveAndPrune(f, {x \in Walked(f) :
                          /\ ~HasDotPrefix(Base(x))
                          /\ HasPsafe3Suffix(Base(x))
                          /\ x \notin selectedPathsOf(selectedFiles)})

\* cleanupAllSafeFiles: removes every .psafe3 file under the provider directory
cleanupAllSafeFilesNotHidden(f) ==
    RemoveAndPrune(f, {x \in Walked(f) : HasPsafe3Suffix(Base(x)) /\ ~HasDotPrefix(Base(x))})
cleanupAllSafeFiles(f) ==
    RemoveAndPrune(f, {x \in Walked(f) : HasPsafe3Suffix(Base(x))})

\* SelectSeq(config.Files, f.Selected)
IsSelected(file) == file.Selected
selectedOf(config) == SelectSeq(config.Files, IsSelected)

\* ------------------------------------------------------------------------
\* Inputs
\* ------------------------------------------------------------------------
\* remote files as the provider lists them: "/Documents/Passwords/a.psafe3" and
\* "/Documents/b.psafe3"
RemoteA == [ID |-> "f1", Name |-> <<"a", ".psafe3">>,
            Path |-> << <<>>, <<"Documents">>, <<"Passwords">> >>]
RemoteB == [ID |-> "f2", Name |-> <<"b", ".psafe3">>,
            Path |-> << <<>>, <<"Documents">> >>]
RemoteFiles == <<RemoteA, RemoteB>>

\* what provider.ListRemoteFiles may answer: the listing changes as the user
\* moves and deletes files in the cloud
RemoteListings == {<<RemoteA, RemoteB>>, <<RemoteB, RemoteA>>, <<RemoteB>>}

SelectedFile(rf, selected) ==
    [ID |-> rf.ID, Name |-> rf.Name, Path |-> rf.Path, Selected |-> selected]

\* an entry of the body of PUT .../files as the client sent it
RequestFile(rf, selected) ==
    [id |-> rf.ID, name |-> rf.Name, path |-> rf.Path, selected |-> selected]

\* an entry whose name holds a byte that is not valid UTF-8
RawC == [ID |-> "f3", Name |-> <<"c", BadByte, ".psafe3">>,
         Path |-> << <<>>, <<"Documents">> >>]

\* the bodies of PUT .../files
RequestBodies ==
    { [files |-> <<>>],
      [files |-> <<RequestFile(RemoteA, TRUE)>>],
      [files |-> <<RequestFile(RemoteA, TRUE), RequestFile(RemoteB, TRUE)>>],
      [files |-> <<RequestFile(RemoteA, FALSE), RequestFile(RemoteB, TRUE)>>],
      [files |-> <<RequestFile(RawC, TRUE)>>] }

\* json.NewDecoder(r.Body).Decode(&req); req.Files
DecodeRequest(body) ==
    IF "files" \in DOMAIN body THEN unmarshalFiles(body.files) ELSE <<>>

\* the arguments of SaveFiles
SaveArgs == {DecodeRequest(body) : body \in RequestBodies}

\* an entry as a client may send it that names no file of a listing: its path
\* "../other" leads out of the mirror directory
CraftedA == [ID |-> "f1", Name |-> <<"a", ".psafe3">>,
             Path |-> << <<"..">>, <<"other">> >>]

CraftedBodies ==
    { [files |-> <<RequestFile(CraftedA, TRUE)>>],
      [files |-> <<RequestFile(RemoteB, TRUE), RequestFile(CraftedA, TRUE)>>] }

CraftedArgs == {DecodeRequest(body) : body \in CraftedBodies}

\* ------------------------------------------------------------------------
\* The OneDrive provider: layout, credentials and the PKCE code verifier
\* ------------------------------------------------------------------------
\* codeVerifierMaxAge, in clock ticks: a tick is 15 minutes
codeVerifierMaxAge == 1

storageDir == Join(safesDirectory, << <<"onedrive">> >>)
tokensPath == Join(storageDir, << <<".tokens", ".json">> >>)
verifierPath == Join(storageDir, << <<".code_verifier">> >>)

\* a string of the provider is a sequence: the empty string is <<>>, a secret is
\* <<"ver", n>> or <<"tok", n>> with its serial number, a formatted time is <<t>>
EmptyString == <<>>
\* a string that is no RFC 3339 timestamp
BadTime == <<"expiry", "?">>

\* time.Parse(time.RFC3339, s) succeeds on what Format wrote and on nothing else
ParsesRFC3339(s) == Len(s) = 1
ParseRFC3339(s) == s[1]

\* the zero value of the tokens struct
NoTokens ==
    [AccessToken |-> EmptyString, RefreshToken |-> EmptyString, ExpiresAt |-> EmptyString,
     AccountName |-> EmptyString, AccountEmail |-> EmptyString]

\* json.MarshalIndent(t) and json.Unmarshal into a zero tokens struct, by the
\* json tags of the fields
marshalTokens(t) ==
    [kind |-> "json",
     doc |-> [accessToken |-> t.AccessToken, refreshToken |-> t.RefreshToken,
              expiresAt |-> t.ExpiresAt, accountName |-> t.AccountName,
              accountEmail |-> t.AccountEmail]]

unmarshalTokens(doc) ==
    [AccessToken |-> IF "accessToken" \in DOMAIN doc THEN doc.accessToken ELSE EmptyString,
     RefreshToken |-> IF "refreshToken" \in DOMAIN doc THEN doc.refreshToken ELSE EmptyString,
     ExpiresAt |-> IF "expiresAt" \in DOMAIN doc THEN doc.expiresAt ELSE EmptyString,
     AccountName |-> IF "accountName" \in DOMAIN doc THEN doc.accountName ELSE EmptyString,
     AccountEmail |-> IF "accountEmail" \in DOMAIN doc THEN doc.accountEmail ELSE EmptyString]

\* loadTokens: os.ReadFile and json.Unmarshal
loadTokens(f) ==
    IF IsFile(f, tokensPath) /\ f.files[tokensPath].kind = "json"
    THEN [ok |-> TRUE, t |-> unmarshalTokens(f.files[tokensPath].doc)]
    ELSE [ok |-> FALSE, t |-> NoTokens]

\* os.WriteFile(path, data) by goroutine p
WriteFileOK(f, path) == CreateOK(f, path)
WriteFile(f, path, p, data) ==
    Close(WriteAt(Create(f, path, p), path, p, data, FALSE), path, p)

\* storeTokens: os.MkdirAll(storageDir), os.WriteFile(tokensPath)
storeTokens(f, p, t) ==
    IF ~MkdirAllOK(f, storageDir) \/ ~WriteFileOK(MkdirAll(f, storageDir), tokensPath)
    THEN [fs |-> f, ok |-> FALSE]
    ELSE [fs |-> WriteFile(MkdirAll(f, storageDir), tokensPath, p, marshalTokens(t)),
          ok |-> TRUE]

\* the bytes of the verifier file together with its modification time
VerifierFile(verifier, mtime) == [kind |-> "text", value |-> verifier, mtime |-> mtime]

\* a store that keeps a verifier that is already there
storeCodeVerifierOnce(f, p, verifier, t) ==
    IF ~MkdirAllOK(f, storageDir) \/ ~WriteFileOK(MkdirAll(f, storageDir), verifierPath)
    THEN [fs |-> f, ok |-> FALSE]
    ELSE IF IsFile(f, verifierPath)
    THEN [fs |-> f, ok |-> TRUE]
    ELSE [fs |-> WriteFile(MkdirAll(f, storageDir), verifierPath, p, VerifierFile(verifier, t)),
          ok |-> TRUE]

\* storeCodeVerifier at time t
storeCodeVerifier(f, p, verifier, t) ==
    IF ~MkdirAllOK(f, storageDir) \/ ~WriteFileOK(MkdirAll(f, storageDir), verifierPath)
    THEN [fs |-> f, ok |-> FALSE]
    ELSE [fs |-> WriteFile(MkdirAll(f, storageDir), verifierPath, p, VerifierFile(verifier, t)),
          ok |-> TRUE]

\* time.Since(stat.ModTime()) > codeVerifierMaxAge
ExpiredAtMaxAge(age) == age >= codeVerifierMaxAge
Expired(age) == age > codeVerifierMaxAge

\* loadCodeVerifier at time t: os.Stat, the age check that removes an expired
\* file, os.ReadFile
loadCodeVerifier(f, t) ==
    IF ~IsFile(f, verifierPath)
    THEN [fs |-> f, err |-> "stat failed", verifier |-> EmptyString]
    ELSE IF Expired(t - f.files[verifierPath].mtime)
         THEN [fs |-> Remove(f, verifierPath), err |-> "code verifier expired",
               verifier |-> EmptyString]
         ELSE [fs |-> f, err |-> "nil", verifier |-> f.files[verifierPath].value]

\* deleteCodeVerifier: os.Remove, its error ignored
deleteCodeVerifierKept(f) == f
deleteCodeVerifier(f) == IF RemoveOK(f, verifierPath) THEN Remove(f, verifierPath) ELSE f

\* cleanupStaleCodeVerifier at time t
cleanupStaleCodeVerifier(f, t) ==
    IF IsFile(f, verifierPath) /\ Expired(t - f.files[verifierPath].mtime)
    THEN Remove(f, verifierPath)
    ELSE f

\* generateCodeVerifier: 32 random bytes, here the next serial number;
\* generateCodeChallenge: its SHA-256
generateCodeVerifier(n) == <<"ver", n>>
generateCodeChallenge(verifier) == <<"S256", verifier[2]>>

\* the zero value of provider.ConnectionStatus
NoStatus ==
    [Connected |-> FALSE, NeedsReauth |-> FALSE,
     AccountName |-> EmptyString, AccountEmail |-> EmptyString]

\* GetConnectionStatus up to the attempt to refresh (lines 154-175): `final`
\* tells that the function returns this status without looking further
statusOfTokens(f) ==
    LET r == loadTokens(f) IN
    IF ~r.ok THEN [status |-> NoStatus, final |-> TRUE]
    ELSE IF r.t.AccessToken = EmptyString \/ r.t.RefreshToken = EmptyString
         THEN [status |-> NoStatus, final |-> TRUE]
    ELSE IF r.t.ExpiresAt # EmptyString /\ ~ParsesRFC3339(r.t.ExpiresAt)
         THEN [status |-> [NoStatus EXCEPT !.NeedsReauth = TRUE], final |-> TRUE]
    ELSE [status |-> [Connected |-> TRUE, NeedsReauth |-> FALSE,
                      AccountName |-> r.t.AccountName, AccountEmail |-> r.t.AccountEmail],
          final |-> FALSE]

\* expires_in of a token response, in ticks: absent (0) or one tick
Lifetimes == {0, 1}

\* the body of an answer of the token endpoint: whether it is a JSON object, the
\* error code it names, and the fields the provider decodes from it (a field
\* that is absent decodes to the empty string or to 0)
TokenBody(json, error, access_token, refresh_token, expires_in) ==
    [json |-> json, error |-> error, access_token |-> access_token,
     refresh_token |-> refresh_token, expires_in |-> expires_in]

\* what the token endpoint may answer when the n-th secret is the last one
\* generated: no answer at all (status 0), an error status whose body names the
\* error, a success status with a body that is no JSON, or a success status with
\* a new access token and, optionally (RFC 6749, 5.1), a new refresh token
TokenResponses(n) ==
    {[status |-> 0, body |-> TokenBody(FALSE, "", EmptyString, EmptyString, 0)]}
    \cup {[status |-> 400, body |-> TokenBody(TRUE, e, EmptyString, EmptyString, 0)] :
             e \in {"invalid_grant", "temporarily_unavailable"}}
    \cup {[status |-> 200, body |-> TokenBody(FALSE, "", EmptyString, EmptyString, 0)]}
    \cup {[status |-> 200, body |-> TokenBody(TRUE, "", <<"tok", n + 1>>, r, e)] :
             r \in {EmptyString, <<"tok", n + 2>>}, e \in Lifetimes}

\* strings.Contains(string(body), "invalid_grant")
ContainsInvalidGrant(body) == body.error = "invalid_grant"

\* what getUserProfile may return: an error, or the name and the mail address
Profiles ==
    { [err |-> TRUE, name |-> EmptyString, email |-> EmptyString],
      [err |-> FALSE, name |-> <<"alice">>, email |-> <<"alice@example.com">>] }

\* ------------------------------------------------------------------------
\* State
\* ------------------------------------------------------------------------
\* goroutines: two that serve API requests, and the periodic loop
Users == {"u1", "u2"}
Loop == "loop"
Procs == Users \cup {Loop}

\* defaultSyncInterval, in clock ticks
defaultSyncInterval == 1

VARIABLES
    fs,         \* the file system
    now,        \* the clock
    connected,  \* the provider's connection status
    syncMutex,  \* [w: the goroutine holding the write lock or None, r: the readers]
    nextSyncAt, \* SyncableSafesService.nextSyncAt
    ticker,     \* [next: the time of the next tick, pending: a tick waits in ticker.C]
    pc,         \* the position of each goroutine
    loc,        \* the local variables of each goroutine
    budget,     \* the number of events the run still takes
    lastSaved,  \* history: the argument of the last SaveFiles that returned nil
                \* since the config file was last removed, None without one
    tokenMutex, \* OneDriveProvider.tokenMutex: the goroutine holding it, or None
    serial,     \* the number of secrets (code verifiers, tokens) generated so far
    cancelled,  \* the service's context is cancelled: s.ctx.Done() is closed
    nextSyncMutex \* SyncableSafesService.nextSyncMutex, as syncMutex

vars == <<fs, now, connected, syncMutex, nextSyncAt, ticker, pc, loc, budget, lastSaved,
          tokenMutex, serial, cancelled, nextSyncMutex>>

\* the locals of a goroutine outside a call. snap and trace are the history of
\* a Sync: the disk it found when it took the lock, and for each file it has
\* processed the faults the environment injected and the stream the provider
\* served; prev is the history of a provider call: the error and the trace of
\* the provider call that returned before it
NoLoc ==
    [config |-> EmptyConfig, selectedFiles |-> <<>>, results |-> <<>>,
     arg |-> <<>>, err |-> None, value |-> None, snap |-> EmptyFS, trace |-> <<>>,
     verifier |-> EmptyString, tokens |-> NoTokens, status |-> NoStatus,
     prev |-> [err |-> None, trace |-> <<>>], caller |-> None]

\* the disk a run of the service that ended at time 0 left behind: both remote
\* files selected and mirrored
PriorConfig ==
    [Files |-> <<SelectedFile(RemoteA, TRUE), SelectedFile(RemoteB, TRUE)>>,
     LastSyncTime |-> FormatRFC3339(0)]

RECURSIVE Mirrored(_, _)
Mirrored(f, files) ==
    IF files = <<>> THEN f
    ELSE LET localPath == getLocalPath(Head(files))
             tmpPath == TmpPath(localPath)
             made == Create(MkdirAll(f, Dir(localPath)), tmpPath, Loop)
             copied == Close(WriteAt(made, tmpPath, Loop, Content(Head(files).ID, 0), FALSE),
                             tmpPath, Loop)
         IN  Mirrored(Rename(copied, tmpPath, localPath), Tail(files))

\* a mirrored file with a hidden name, of a selection older than PriorConfig:
\* the cleanup of Sync has skipped it ever since
HiddenSafe == Join(providerDir, << <<".", "old", ".psafe3">> >>)

\* the files a provider keeps in the mirror directory next to .config.json
providerTokensPath == Join(providerDir, << <<".tokens", ".json">> >>)
providerVerifierPath == Join(providerDir, << <<".code_verifier">> >>)

PriorDisk ==
    LET f == Mirrored(EmptyFS, selectedOf(PriorConfig))
        g == Close(WriteAt(Create(MkdirAll(f, providerDir), HiddenSafe, Loop),
                           HiddenSafe, Loop, Content("f0", 0), FALSE),
                   HiddenSafe, Loop)
        h == WriteFile(WriteFile(g, providerTokensPath, Loop, marshalTokens(NoTokens)),
                       providerVerifierPath, Loop, VerifierFile(<<"ver", 0>>, 0))
    IN  Close(WriteAt(Create(h, configPath, Loop),
                      configPath, Loop, MarshalIndent(PriorConfig), FALSE),
              configPath, Loop)

\* the service is constructed over a disk that is fresh or that an earlier run
\* left behind
InitialDisks == {EmptyFS, PriorDisk}

InitWith(n) ==
    /\ fs \in InitialDisks
    /\ now = 1
    /\ connected \in BOOLEAN
    /\ syncMutex = [w |-> None, r |-> {}]
    /\ nextSyncAt = now + defaultSyncInterval
    /\ ticker = [next |-> now + defaultSyncInterval, pending |-> FALSE]
    /\ pc = [p \in Procs |-> IF p = Loop THEN "loopWait" ELSE "idle"]
    /\ loc = [p \in Procs |-> NoLoc]
    /\ budget = n
    /\ lastSaved = IF fs = PriorDisk THEN PriorConfig.Files ELSE None
    /\ tokenMutex = None
    /\ serial = 0
    /\ cancelled = FALSE
    /\ nextSyncMutex = [w |-> None, r |-> {}]

Init == InitWith(MaxOps)

\* where a goroutine continues when the call it runs returns
Return(p) == IF p = Loop THEN "loopNext" ELSE "done"

\* the locals of a goroutine whose call returned: the return values only
Returned(err, results, value) ==
    [NoLoc EXCEPT !.err = err, !.results = results, !.value = value]

\* sync.RWMutex
LockFreeNoWriterCheck(m) == m.r = {}
LockNotTaken(m, p) == m
LockFree(m) == m.w = None /\ m.r = {}
RLockFreeAlways(m) == TRUE
RLockFree(m) == m.w = None
Lock(m, p) == [m EXCEPT !.w = p]
UnlockKept(m, p) == m
Unlock(m, p) == [m EXCEPT !.w = None]
RLock(m, p) == [m EXCEPT !.r = @ \cup {p}]
RUnlock(m, p) == [m EXCEPT !.r = @ \ {p}]

\* provider.GetConnectionStatus
GetConnectionStatusConnected(attemptRefresh) ==
    [Connected |-> TRUE, NeedsReauth |-> FALSE]
GetConnectionStatus(attemptRefresh) ==
    [Connected |-> connected, NeedsReauth |-> FALSE]

\* a goroutine that serves no request; "done" is the goroutine after a handler
\* returned, its return values still in loc
Free(p) == pc[p] \in {"idle", "done"}

\* a request enters its handler on the first free goroutine (net/http starts one
\* per request and they are interchangeable)
Call(p, label, arg) ==
    /\ p \in Users
    /\ Free(p)
    /\ p = "u1" \/ ~Free("u1")
    /\ budget > 0
    /\ budget' = budget - 1
    /\ pc' = [pc EXCEPT ![p] = label]
    /\ loc' = [loc EXCEPT ![p] = [NoLoc EXCEPT !.arg = arg]]

\* ------------------------------------------------------------------------
\* Sync
\* ------------------------------------------------------------------------
CallSync(p) ==
    /\ Call(p, "syncLock", <<>>)
    /\ UNCHANGED <<fs, now, connected, syncMutex, nextSyncAt, ticker, lastSaved, tokenMutex, serial, cancelled, nextSyncMutex>>

\* s.syncMutex.Lock()
SyncLock(p) ==
    /\ pc[p] = "syncLock"
    /\ LockFree(syncMutex)
    /\ syncMutex' = Lock(syncMutex, p)
    /\ pc' = [pc EXCEPT ![p] = "syncCheck"]
    /\ loc' = [loc EXCEPT ![p].snap = fs]
    /\ UNCHANGED <<fs, now, connected, nextSyncAt, ticker, budget, lastSaved, tokenMutex, serial, cancelled, nextSyncMutex>>

\* the return of Sync with an error: the deferred Unlock runs
SyncFail(p, err) ==
    /\ syncMutex' = Unlock(syncMutex, p)
    /\ loc' = [loc EXCEPT ![p] = Returned(err, <<>>, None)]
    /\ pc' = [pc EXCEPT ![p] = Return(p)]

\* Step 0: verify we are connected
SyncCheck(p) ==
    /\ pc[p] = "syncCheck"
    /\ \E statusErr \in BOOLEAN :
         LET status == GetConnectionStatus(FALSE) IN
         IF statusErr THEN SyncFail(p, "failed to check connection status")
         ELSE IF ~status.Connected THEN SyncFail(p, "not authenticated")
         ELSE /\ pc' = [pc EXCEPT ![p] = "syncLoad"]
              /\ UNCHANGED <<syncMutex, loc, cancelled, nextSyncMutex>>
    /\ UNCHANGED <<fs, now, connected, nextSyncAt, ticker, budget, lastSaved, tokenMutex, serial, cancelled, nextSyncMutex>>

\* Step 1: load the config and keep the selected files
SyncLoad(p) ==
    /\ pc[p] = "syncLoad"
    /\ LET r == loadConfig(fs) IN
       IF ~r.ok THEN SyncFail(p, "failed to load config")
       ELSE /\ loc' = [loc EXCEPT ![p].config = r.config,
                                  ![p].selectedFiles = selectedOf(r.config)]
            /\ pc' = [pc EXCEPT ![p] = IF selectedOf(r.config) = <<>>
                                       THEN "syncCleanup" ELSE "syncFile"]
            /\ UNCHANGED syncMutex
    /\ UNCHANGED <<fs, now, connected, nextSyncAt, ticker, budget, lastSaved, tokenMutex, serial, cancelled, nextSyncMutex>>

\* the selected file the loop of Step 2 is at
CurrentFile(p) == loc[p].selectedFiles[Len(loc[p].results) + 1]

\* results = append(results, result), and on to the next selected file
AppendResultOrAbort(p, success, error, entry) ==
    /\ loc' = [loc EXCEPT ![p].results = Append(@, [Name |-> loc[p].selectedFiles[Len(@) + 1].Name,
                                                    Success |-> success, Error |-> error]),
                           ![p].trace = Append(@, entry),
                           ![p].value = None]
    /\ pc' = [pc EXCEPT ![p] = IF ~success \/ Len(loc[p].results) + 1 = Len(loc[p].selectedFiles)
                               THEN "syncCleanup" ELSE "syncFile"]
AppendResult(p, success, error, entry) ==
    LET results == Append(loc[p].results,
                          [Name |-> CurrentFile(p).Name, Success |-> success, Error |-> error])
    IN  /\ loc' = [loc EXCEPT ![p].results = results,
                               ![p].trace = Append(@, entry),
                               ![p].value = None]
        /\ pc' = [pc EXCEPT ![p] = IF Len(results) = Len(loc[p].selectedFiles)
                                   THEN "syncCleanup" ELSE "syncFile"]

\* the faults of the first half of one file's download, and of its second half
FileFaults == {"mkdir", "download", "create"}
CopyFaults == {"copy", "rename"}

\* a step in which the environment lets an operation fail, or lets it be
Inject(fault, faults) ==
    /\ \/ fault = "none" /\ budget' = budget
       \/ fault \in faults /\ budget > 0 /\ budget' = budget - 1

\* os.MkdirAll of the parent directory, provider.DownloadFile, and
\* downloadToPath up to the first bytes of io.Copy: the disk afterwards and the
\* error of the file's result, None when the download goes on
downloadBegin(f, p, file, fault) ==
    LET localPath == getLocalPath(file)
        tmpPath == TmpPath(localPath)
        made == MkdirAll(f, Dir(localPath))
    IN  IF fault = "mkdir" \/ ~MkdirAllOK(f, Dir(localPath))
        THEN [fs |-> f, err |-> "failed to create directory"]
        ELSE IF fault = "download"
        THEN [fs |-> made, err |-> "download failed"]
        ELSE IF fault = "create" \/ ~CreateOK(made, tmpPath)
        THEN [fs |-> made, err |-> "failed to create temp file"]
        ELSE [fs |-> WriteAt(Create(made, tmpPath, p), tmpPath, p, Partial, FALSE),
              err |-> None]

\* the rest of downloadToPath: the rest of io.Copy, Close and the rename over
\* the destination, the temp file removed when either fails
downloadEnd(f, p, file, fault, data) ==
    LET localPath == getLocalPath(file)
        tmpPath == TmpPath(localPath)
        closed == Close(f, tmpPath, p)
        copied == Close(WriteAt(f, tmpPath, p, data, FALSE), tmpPath, p)
        removed(g) == IF RemoveOK(g, tmpPath) THEN Remove(g, tmpPath) ELSE g
    IN  IF fault = "copy"
        THEN [fs |-> removed(closed), err |-> "failed to write file"]
        ELSE IF fault = "rename" \/ ~RenameOK(copied, tmpPath, localPath)
        THEN [fs |-> removed(copied), err |-> "failed to finalize file"]
        ELSE [fs |-> Rename(copied, tmpPath, localPath), err |-> None]

TraceEntry(begin, end, data) == [begin |-> begin, end |-> end, data |-> data]

\* Step 2, first half
SyncFile(p) ==
    /\ pc[p] \in {"syncFile", "syncDownload"}
    /\ \E fault \in FileFaults \cup {"none"} :
         LET r == downloadBegin(fs, p, CurrentFile(p), fault) IN
         /\ Inject(fault, FileFaults)
         /\ fs' = r.fs
         /\ IF r.err # None
            THEN AppendResult(p, FALSE, r.err, TraceEntry(fault, "none", Empty))
            ELSE /\ loc' = [loc EXCEPT ![p].value = Content(CurrentFile(p).ID, now)]
                 /\ pc' = [pc EXCEPT ![p] = "syncCopy"]
    /\ UNCHANGED <<now, connected, syncMutex, nextSyncAt, ticker, lastSaved, tokenMutex, serial, cancelled, nextSyncMutex>>

\* Step 2, second half
SyncCopy(p) ==
    /\ pc[p] = "syncCopy"
    /\ \E fault \in CopyFaults \cup {"none"} :
         LET r == downloadEnd(fs, p, CurrentFile(p), fault, loc[p].value) IN
         /\ Inject(fault, CopyFaults)
         /\ fs' = r.fs
         /\ AppendResult(p, r.err = None, r.err, TraceEntry("none", fault, loc[p].value))
    /\ UNCHANGED <<now, connected, syncMutex, nextSyncAt, ticker, lastSaved, tokenMutex, serial, cancelled, nextSyncMutex>>

\* saveConfig up to the opening of the file by os.WriteFile: ok is FALSE when
\* saveConfig returns an error
saveConfigOpen(f, p) ==
    IF ~MkdirAllOK(f, providerDir) \/ ~CreateOK(MkdirAll(f, providerDir), configPath)
    THEN [ok |-> FALSE, fs |-> f]
    ELSE [ok |-> TRUE, fs |-> Create(MkdirAll(f, providerDir), configPath, p)]

\* the write and the close of os.WriteFile
saveConfigWrite(f, p, config, torn) ==
    Close(WriteAt(f, configPath, p, MarshalIndent(config), torn), configPath, p)

\* the return of Sync with its results
SyncReturn(p) ==
    /\ syncMutex' = Unlock(syncMutex, p)
    /\ loc' = [loc EXCEPT ![p] = Returned("nil", loc[p].results, None)]
    /\ pc' = [pc EXCEPT ![p] = Return(p)]

\* config.LastSyncTime = time.Now().Format(time.RFC3339)
StampKept(config) == config
Stamp(config) == [config EXCEPT !.LastSyncTime = FormatRFC3339(now)]

\* Step 3: cleanup of the files no longer selected; Step 4: config.LastSyncTime
\* = now and saveConfig up to the opening of the file (an error of saveConfig is
\* dropped). The cleanup touches no hidden file and the opening nothing but
\* .config.json, so that no step of another goroutine is lost between the two.
SyncCleanup(p) ==
    /\ pc[p] = "syncCleanup"
    /\ LET r == saveConfigOpen(cleanupUnselectedFiles(fs, loc[p].selectedFiles), p) IN
       /\ fs' = r.fs
       /\ IF r.ok
          THEN /\ loc' = [loc EXCEPT ![p].config = Stamp(@)]
               /\ pc' = [pc EXCEPT ![p] = "syncWrite"]
               /\ UNCHANGED syncMutex
          ELSE SyncReturn(p)
    /\ UNCHANGED <<now, connected, nextSyncAt, ticker, budget, lastSaved, tokenMutex, serial, cancelled, nextSyncMutex>>

\* Step 4, the write of os.WriteFile, and the return
SyncWrite(p) ==
    /\ pc[p] = "syncWrite"
    /\ \E torn \in BOOLEAN : fs' = saveConfigWrite(fs, p, loc[p].config, torn)
    /\ SyncReturn(p)
    /\ UNCHANGED <<now, connected, nextSyncAt, ticker, budget, lastSaved, tokenMutex, serial, cancelled, nextSyncMutex>>

\* ------------------------------------------------------------------------
\* SaveFiles
\* ------------------------------------------------------------------------
CallSaveFiles(p) ==
    /\ \E files \in SaveArgs : Call(p, "saveLoad", files)
    /\ UNCHANGED <<fs, now, connected, syncMutex, nextSyncAt, ticker, lastSaved, tokenMutex, serial, cancelled, nextSyncMutex>>

\* SaveFiles with a body no listing offered: the handler passes on what it decoded
CallSaveFilesCrafted(p) ==
    /\ \E files \in CraftedArgs : Call(p, "saveLoad", files)
    /\ UNCHANGED <<fs, now, connected, syncMutex, nextSyncAt, ticker, lastSaved, tokenMutex, serial, cancelled, nextSyncMutex>>

\* a handler that dereferences the nil config panics; net/http recovers the
\* panic and the request ends without a response
Panic(p) ==
    /\ loc' = [loc EXCEPT ![p] = Returned("panic", <<>>, None)]
    /\ pc' = [pc EXCEPT ![p] = "done"]

\* config, _ := s.loadConfig(); config.Files = files
SaveLoad(p) ==
    /\ pc[p] = "saveLoad"
    /\ LET r == loadConfig(fs) IN
       IF ~r.ok THEN Panic(p)
       ELSE /\ loc' = [loc EXCEPT ![p].config = [r.config EXCEPT !.Files = loc[p].arg]]
            /\ pc' = [pc EXCEPT ![p] = "saveOpen"]
    /\ UNCHANGED <<fs, now, connected, syncMutex, nextSyncAt, ticker, budget, lastSaved, tokenMutex, serial, cancelled, nextSyncMutex>>

SaveOpen(p) ==
    /\ pc[p] = "saveOpen"
    /\ LET r == saveConfigOpen(fs, p) IN
       /\ fs' = r.fs
       /\ IF r.ok
          THEN pc' = [pc EXCEPT ![p] = "saveWrite"] /\ UNCHANGED loc
          ELSE /\ loc' = [loc EXCEPT ![p] = Returned("save failed", <<>>, None)]
               /\ pc' = [pc EXCEPT ![p] = "done"]
    /\ UNCHANGED <<now, connected, syncMutex, nextSyncAt, ticker, budget, lastSaved, tokenMutex, serial, cancelled, nextSyncMutex>>

SaveWrite(p) ==
    /\ pc[p] = "saveWrite"
    /\ \E torn \in BOOLEAN : fs' = saveConfigWrite(fs, p, loc[p].config, torn)
    /\ loc' = [loc EXCEPT ![p] = Returned("nil", <<>>, None)]
    /\ pc' = [pc EXCEPT ![p] = "done"]
    /\ lastSaved' = loc[p].arg
    /\ UNCHANGED <<now, connected, syncMutex, nextSyncAt, ticker, budget, tokenMutex, serial, cancelled, nextSyncMutex>>

\* ------------------------------------------------------------------------
\* GetProviderStatus
\* ------------------------------------------------------------------------
CallStatus(p) ==
    /\ Call(p, "statLock", <<>>)
    /\ UNCHANGED <<fs, now, connected, syncMutex, nextSyncAt, ticker, lastSaved, tokenMutex, serial, cancelled, nextSyncMutex>>

\* s.syncMutex.RLock()
StatLock(p) ==
    /\ pc[p] = "statLock"
    /\ RLockFree(syncMutex)
    /\ syncMutex' = RLock(syncMutex, p)
    /\ pc' = [pc EXCEPT ![p] = "statBody"]
    /\ UNCHANGED <<fs, now, connected, nextSyncAt, ticker, loc, budget, lastSaved, tokenMutex, serial, cancelled, nextSyncMutex>>

\* the body of GetProviderStatus; the deferred RUnlock runs on every return and
\* on the panic
StatBody(p) ==
    /\ pc[p] = "statBody"
    /\ syncMutex' = RUnlock(syncMutex, p)
    /\ \E statusErr \in BOOLEAN :
         LET status == GetConnectionStatus(TRUE)
             r == loadConfig(fs)
         IN  IF statusErr
             THEN /\ loc' = [loc EXCEPT ![p] = Returned("status failed", <<>>, None)]
                  /\ pc' = [pc EXCEPT ![p] = "done"]
             ELSE IF ~r.ok THEN Panic(p)
             ELSE /\ loc' = [loc EXCEPT ![p] =
                              Returned("nil", <<>>,
                                       [Connected |-> status.Connected,
                                        NeedsReauth |-> status.NeedsReauth,
                                        LastSyncTime |-> r.config.LastSyncTime,
                                        NextSyncAt |-> FormatRFC3339(nextSyncAt)])]
                  /\ pc' = [pc EXCEPT ![p] = "done"]
    /\ UNCHANGED <<fs, now, connected, nextSyncAt, ticker, budget, lastSaved, tokenMutex, serial, cancelled, nextSyncMutex>>

\* ------------------------------------------------------------------------
\* ListFiles
\* ------------------------------------------------------------------------
CallListFiles(p) ==
    /\ Call(p, "listLoad", <<>>)
    /\ UNCHANGED <<fs, now, connected, syncMutex, nextSyncAt, ticker, lastSaved, tokenMutex, serial, cancelled, nextSyncMutex>>

\* config, _ := s.loadConfig(); the loop over config.Files
ListLoad(p) ==
    /\ pc[p] = "listLoad"
    /\ LET r == loadConfig(fs) IN
       IF ~r.ok THEN Panic(p)
       ELSE /\ loc' = [loc EXCEPT ![p].config = r.config]
            /\ pc' = [pc EXCEPT ![p] = "listRemote"]
    /\ UNCHANGED <<fs, now, connected, syncMutex, nextSyncAt, ticker, budget, lastSaved, tokenMutex, serial, cancelled, nextSyncMutex>>

\* savedSelections[id]: the Selected of the last saved entry with that id, false
\* when there is none
savedSelection(config, id) ==
    LET hits == {k \in DOMAIN config.Files : config.Files[k].ID = id}
    IN  IF hits = {} THEN FALSE
        ELSE config.Files[CHOOSE k \in hits : \A j \in hits : j <= k].Selected

\* the merge with every entry unselected
mergeRemoteUnselected(config, remoteFiles) ==
    [k \in DOMAIN remoteFiles |-> SelectedFile(remoteFiles[k], FALSE)]
mergeRemote(config, remoteFiles) ==
    [k \in DOMAIN remoteFiles |->
        SelectedFile(remoteFiles[k], savedSelection(config, remoteFiles[k].ID))]

\* the return of ListFiles when provider.ListRemoteFiles failed
listFallbackError(config) == [err |-> "list failed", value |-> None]
listFallback(config) == [err |-> "nil", value |-> config.Files]

\* provider.ListRemoteFiles and the merge; the trace keeps what the provider
\* answered
ListRemote(p) ==
    /\ pc[p] = "listRemote"
    /\ \E listErr \in BOOLEAN, remoteFiles \in RemoteListings :
         LET r == IF listErr THEN listFallback(loc[p].config)
                  ELSE [err |-> "nil", value |-> mergeRemote(loc[p].config, remoteFiles)]
             answer == IF listErr THEN [err |-> TRUE, files |-> <<>>]
                       ELSE [err |-> FALSE, files |-> remoteFiles]
         IN  loc' = [loc EXCEPT ![p] = [Returned(r.err, <<>>, r.value) EXCEPT
                                          !.trace = <<answer>>]]
    /\ pc' = [pc EXCEPT ![p] = "done"]
    /\ UNCHANGED <<fs, now, connected, syncMutex, nextSyncAt, ticker, budget, lastSaved, tokenMutex, serial, cancelled, nextSyncMutex>>

\* ------------------------------------------------------------------------
\* Disconnect
\* ------------------------------------------------------------------------
CallDisconnect(p) ==
    /\ Call(p, "discProvider", <<>>)
    /\ UNCHANGED <<fs, now, connected, syncMutex, nextSyncAt, ticker, lastSaved, tokenMutex, serial, cancelled, nextSyncMutex>>

\* s.provider.Disconnect(ctx), whose error ends the call
DiscProvider(p) ==
    /\ pc[p] = "discProvider"
    /\ \E providerErr \in BOOLEAN :
         IF providerErr
         THEN /\ loc' = [loc EXCEPT ![p] = Returned("disconnect failed", <<>>, None)]
              /\ pc' = [pc EXCEPT ![p] = "done"]
              /\ UNCHANGED connected
         ELSE /\ connected' = FALSE
              /\ pc' = [pc EXCEPT ![p] = "discConfig"]
              /\ loc' = [loc EXCEPT ![p].snap = fs,
                                     ![p].trace = Append(@, [call |-> "provider.Disconnect"])]
    /\ UNCHANGED <<fs, now, syncMutex, nextSyncAt, ticker, budget, lastSaved, tokenMutex, serial, cancelled, nextSyncMutex>>

\* os.Remove(s.configPath())
DiscConfig(p) ==
    /\ pc[p] = "discConfig"
    /\ fs' = IF RemoveOK(fs, configPath) THEN Remove(fs, configPath) ELSE fs
    /\ pc' = [pc EXCEPT ![p] = "discFiles"]
    /\ lastSaved' = None
    /\ UNCHANGED <<now, connected, syncMutex, nextSyncAt, ticker, loc, budget, tokenMutex, serial, cancelled, nextSyncMutex>>

\* s.cleanupAllSafeFiles()
DiscFiles(p) ==
    /\ pc[p] = "discFiles"
    /\ fs' = cleanupAllSafeFiles(fs)
    /\ loc' = [loc EXCEPT ![p] = [Returned("nil", <<>>, None) EXCEPT
                                     !.snap = loc[p].snap, !.trace = loc[p].trace]]
    /\ pc' = [pc EXCEPT ![p] = "done"]
    /\ UNCHANGED <<now, connected, syncMutex, nextSyncAt, ticker, budget, lastSaved, tokenMutex, serial, cancelled, nextSyncMutex>>

\* ------------------------------------------------------------------------
\* The periodic loop
\* ------------------------------------------------------------------------
\* case <-ticker.C
LoopTick ==
    /\ pc[Loop] = "loopWait"
    /\ ticker.pending
    /\ ticker' = [ticker EXCEPT !.pending = FALSE]
    /\ pc' = [pc EXCEPT ![Loop] = "loopCheck"]
    /\ UNCHANGED <<fs, now, connected, syncMutex, nextSyncAt, loc, budget, lastSaved, tokenMutex, serial, cancelled, nextSyncMutex>>

\* line 231: if err != nil || !status.Connected { return }
skipsTickOnErrorOnly(statusErr, status) == statusErr
skipsTick(statusErr, status) == statusErr \/ ~status.Connected

\* tryPeriodicSync: skip the tick unless the cheap check reports connected.
\* The locals keep what the check answered
LoopCheck ==
    /\ pc[Loop] = "loopCheck"
    /\ \E statusErr \in BOOLEAN :
         LET status == GetConnectionStatus(FALSE) IN
         /\ pc' = [pc EXCEPT ![Loop] = IF skipsTick(statusErr, status)
                                       THEN "loopNext" ELSE "syncLock"]
         /\ loc' = [loc EXCEPT
                      ![Loop].status = [NoStatus EXCEPT !.Connected = status.Connected,
                                                        !.NeedsReauth = status.NeedsReauth],
                      ![Loop].prev = [err |-> IF statusErr THEN "status failed" ELSE "nil",
                                      trace |-> <<>>]]
    /\ UNCHANGED <<fs, now, connected, syncMutex, nextSyncAt, ticker, budget, lastSaved, tokenMutex, serial, cancelled, nextSyncMutex>>

\* s.nextSyncAt = time.Now().Add(s.syncInterval), under nextSyncMutex
LoopNext ==
    /\ pc[Loop] = "loopNext"
    /\ nextSyncAt' = now + defaultSyncInterval
    /\ pc' = [pc EXCEPT ![Loop] = "loopWait"]
    /\ loc' = [loc EXCEPT ![Loop] = NoLoc]
    /\ UNCHANGED <<fs, now, connected, syncMutex, ticker, budget, lastSaved, tokenMutex, serial, cancelled, nextSyncMutex>>

\* case <-s.ctx.Done(): return. With a tick in the channel as well, select
\* takes either case
LoopStop ==
    /\ pc[Loop] = "loopWait"
    /\ cancelled
    /\ pc' = [pc EXCEPT ![Loop] = "stopped"]
    /\ UNCHANGED <<fs, now, connected, syncMutex, nextSyncAt, ticker, loc, budget, lastSaved, tokenMutex, serial, cancelled, nextSyncMutex>>

\* SyncableSafesService.Stop: s.cancel(), and the return
Stop ==
    /\ ~cancelled
    /\ cancelled' = TRUE
    /\ UNCHANGED <<fs, now, connected, syncMutex, nextSyncAt, ticker, pc, loc, budget, lastSaved, tokenMutex, serial, nextSyncMutex>>

\* ------------------------------------------------------------------------
\* The environment
\* ------------------------------------------------------------------------
\* time passes; the ticker puts a tick into its channel every interval
Tick ==
    /\ budget > 0
    /\ budget' = budget - 1
    /\ now' = now + 1
    /\ ticker' = IF now + 1 >= ticker.next
                 THEN [next |-> ticker.next + defaultSyncInterval, pending |-> TRUE]
                 ELSE ticker
    /\ UNCHANGED <<fs, connected, syncMutex, nextSyncAt, pc, loc, lastSaved, tokenMutex, serial, cancelled, nextSyncMutex>>

\* provider.HandleCallback: the user completes the authorization
HandleCallback ==
    /\ ~connected
    /\ budget > 0
    /\ budget' = budget - 1
    /\ connected' = TRUE
    /\ UNCHANGED <<fs, now, syncMutex, nextSyncAt, ticker, pc, loc, lastSaved, tokenMutex, serial, cancelled, nextSyncMutex>>

\* ------------------------------------------------------------------------
\* The OneDrive provider: its calls, step by step
\* ------------------------------------------------------------------------
\* a request enters a handler that calls the provider; snap keeps the disk the
\* call found, prev what the call before it returned
CallProvider(p, label, arg) ==
    /\ p \in Users
    /\ Free(p)
    /\ p = "u1" \/ ~Free("u1")
    /\ budget > 0
    /\ budget' = budget - 1
    /\ pc' = [pc EXCEPT ![p] = label]
    /\ loc' = [loc EXCEPT ![p] = [NoLoc EXCEPT !.arg = arg, !.snap = fs,
                                               !.prev = [err |-> loc[p].err,
                                                         trace |-> loc[p].trace]]]

\* the locals of a goroutine whose provider call returned: the return values,
\* and the history of the call
Finish(p, err, value, trace) ==
    [Returned(err, <<>>, value) EXCEPT !.snap = loc[p].snap, !.trace = trace,
                                       !.caller = loc[p].caller, !.prev = loc[p].prev]

\* a request that the provider sent to the token endpoint, and the answer
TokenRequest(grant, secret, resp) ==
    [grant |-> grant, secret |-> secret, status |-> resp.status, body |-> resp.body]

\* GetAuthURL: generate a verifier, store it, return the URL with its challenge
CallGetAuthURL(p) ==
    /\ CallProvider(p, "authStore", <<>>)
    /\ UNCHANGED <<fs, now, connected, syncMutex, nextSyncAt, ticker, lastSaved, tokenMutex, serial, cancelled, nextSyncMutex>>

AuthStore(p) ==
    /\ pc[p] = "authStore"
    /\ LET codeVerifier == generateCodeVerifier(serial + 1)
           r == storeCodeVerifier(fs, p, codeVerifier, now)
       IN  /\ fs' = r.fs
           /\ loc' = [loc EXCEPT ![p] =
                         IF r.ok
                         THEN Finish(p, "nil", generateCodeChallenge(codeVerifier), loc[p].trace)
                         ELSE Finish(p, "failed to store code verifier", None, loc[p].trace)]
    /\ serial' = serial + 1
    /\ pc' = [pc EXCEPT ![p] = "done"]
    /\ UNCHANGED <<now, connected, syncMutex, nextSyncAt, ticker, budget, lastSaved, tokenMutex, cancelled, nextSyncMutex>>

\* HandleCallback
CallHandleCallback(p) ==
    /\ CallProvider(p, "cbLoad", <<"code">>)
    /\ UNCHANGED <<fs, now, connected, syncMutex, nextSyncAt, ticker, lastSaved, tokenMutex, serial, cancelled, nextSyncMutex>>

\* codeVerifier, err := p.loadCodeVerifier()
CbLoad(p) ==
    /\ pc[p] = "cbLoad"
    /\ LET r == loadCodeVerifier(fs, now) IN
       /\ fs' = r.fs
       /\ IF r.err # "nil"
          THEN /\ loc' = [loc EXCEPT ![p] = Finish(p, r.err, None, loc[p].trace)]
               /\ pc' = [pc EXCEPT ![p] = "done"]
          ELSE /\ loc' = [loc EXCEPT ![p].verifier = r.verifier]
               /\ pc' = [pc EXCEPT ![p] = "cbExchange"]
    /\ UNCHANGED <<now, connected, syncMutex, nextSyncAt, ticker, budget, lastSaved, tokenMutex, serial, cancelled, nextSyncMutex>>

\* the tokens exchangeCodeForTokens builds from a decoded answer, at time t
exchangedTokens(body, t) ==
    [NoTokens EXCEPT !.AccessToken = body.access_token,
                     !.RefreshToken = body.refresh_token,
                     !.ExpiresAt = FormatRFC3339(t + body.expires_in)]

\* the error of exchangeCodeForTokens for an answer, "nil" without one
exchangeError(resp) ==
    IF resp.status = 0 THEN "token request failed"
    ELSE IF resp.status # 200 THEN "token exchange failed"
    ELSE IF ~resp.body.json THEN "failed to parse token response"
    ELSE "nil"

\* p.exchangeCodeForTokens(code, codeVerifier) and p.getUserProfile, whose
\* error is not fatal
CbExchange(p) ==
    /\ pc[p] = "cbExchange"
    /\ \E resp \in TokenResponses(serial), profile \in Profiles :
         LET trace == Append(loc[p].trace,
                             TokenRequest("authorization_code", loc[p].verifier, resp))
             newTokens == exchangedTokens(resp.body, now)
         IN  IF exchangeError(resp) # "nil"
             THEN /\ loc' = [loc EXCEPT ![p] = Finish(p, exchangeError(resp), None, trace)]
                  /\ pc' = [pc EXCEPT ![p] = "done"]
                  /\ UNCHANGED serial
             ELSE /\ loc' = [loc EXCEPT
                               ![p].tokens = [newTokens EXCEPT !.AccountName = profile.name,
                                                               !.AccountEmail = profile.email],
                               ![p].trace = trace]
                  /\ pc' = [pc EXCEPT ![p] = "cbStore"]
                  /\ serial' = serial + 2
    /\ UNCHANGED <<fs, now, connected, syncMutex, nextSyncAt, ticker, budget, lastSaved, tokenMutex, cancelled, nextSyncMutex>>

\* p.storeTokens(newTokens)
CbStore(p) ==
    /\ pc[p] = "cbStore"
    /\ LET r == storeTokens(fs, p, loc[p].tokens) IN
       /\ fs' = r.fs
       /\ IF ~r.ok
          THEN /\ loc' = [loc EXCEPT ![p] = Finish(p, "failed to store tokens", None, loc[p].trace)]
               /\ pc' = [pc EXCEPT ![p] = "done"]
          ELSE /\ pc' = [pc EXCEPT ![p] = "cbDelete"]
               /\ UNCHANGED loc
    /\ UNCHANGED <<now, connected, syncMutex, nextSyncAt, ticker, budget, lastSaved, tokenMutex, serial, cancelled, nextSyncMutex>>

\* p.deleteCodeVerifier(); return nil
CbDelete(p) ==
    /\ pc[p] = "cbDelete"
    /\ fs' = deleteCodeVerifier(fs)
    /\ loc' = [loc EXCEPT ![p] = Finish(p, "nil", None, loc[p].trace)]
    /\ pc' = [pc EXCEPT ![p] = "done"]
    /\ UNCHANGED <<now, connected, syncMutex, nextSyncAt, ticker, budget, lastSaved, tokenMutex, serial, cancelled, nextSyncMutex>>

\* OneDriveProvider.Disconnect
CallProviderDisconnect(p) ==
    /\ CallProvider(p, "pdTokens", <<>>)
    /\ UNCHANGED <<fs, now, connected, syncMutex, nextSyncAt, ticker, lastSaved, tokenMutex, serial, cancelled, nextSyncMutex>>

\* os.Remove(tokensPath): an error other than "does not exist" ends the call
PdTokens(p) ==
    /\ pc[p] = "pdTokens"
    /\ IF Exists(fs, tokensPath) /\ ~RemoveOK(fs, tokensPath)
       THEN /\ loc' = [loc EXCEPT ![p] = Finish(p, "remove failed", None, loc[p].trace)]
            /\ pc' = [pc EXCEPT ![p] = "done"]
            /\ UNCHANGED fs
       ELSE /\ fs' = IF RemoveOK(fs, tokensPath) THEN Remove(fs, tokensPath) ELSE fs
            /\ pc' = [pc EXCEPT ![p] = "pdVerifier"]
            /\ UNCHANGED loc
    /\ UNCHANGED <<now, connected, syncMutex, nextSyncAt, ticker, budget, lastSaved, tokenMutex, serial, cancelled, nextSyncMutex>>

\* p.deleteCodeVerifier(); return nil
PdVerifier(p) ==
    /\ pc[p] = "pdVerifier"
    /\ fs' = deleteCodeVerifier(fs)
    /\ loc' = [loc EXCEPT ![p] = Finish(p, "nil", None, <<[call |-> "Disconnect"]>>)]
    /\ pc' = [pc EXCEPT ![p] = "done"]
    /\ UNCHANGED <<now, connected, syncMutex, nextSyncAt, ticker, budget, lastSaved, tokenMutex, serial, cancelled, nextSyncMutex>>

\* OneDriveProvider.GetConnectionStatus(ctx, attemptRefresh)
CallGetConnectionStatus(p) ==
    /\ \E attemptRefresh \in BOOLEAN : CallProvider(p, "gsLoad", attemptRefresh)
    /\ UNCHANGED <<fs, now, connected, syncMutex, nextSyncAt, ticker, lastSaved, tokenMutex, serial, cancelled, nextSyncMutex>>

\* line 177: getValidAccessToken is called only if the caller asked for it
attemptsRefreshAlways(attemptRefresh) == TRUE
attemptsRefresh(attemptRefresh) == attemptRefresh

\* lines 154-178: the status read off the credential file
GsLoad(p) ==
    /\ pc[p] = "gsLoad"
    /\ LET r == statusOfTokens(fs) IN
       IF r.final \/ ~attemptsRefresh(loc[p].arg)
       THEN /\ loc' = [loc EXCEPT ![p] = Finish(p, "nil", r.status, loc[p].trace)]
            /\ pc' = [pc EXCEPT ![p] = "done"]
       ELSE /\ loc' = [loc EXCEPT ![p].status = r.status,
                                   ![p].caller = "GetConnectionStatus"]
            /\ pc' = [pc EXCEPT ![p] = "gvLock"]
    /\ UNCHANGED <<fs, now, connected, syncMutex, nextSyncAt, ticker, budget, lastSaved, tokenMutex, serial, cancelled, nextSyncMutex>>

\* OneDriveProvider.ListRemoteFiles(ctx), whose first statement is the call of
\* getValidAccessToken
CallListRemoteFiles(p) ==
    /\ CallProvider(p, "gvLock", <<>>)
    /\ UNCHANGED <<fs, now, connected, syncMutex, nextSyncAt, ticker, lastSaved, tokenMutex, serial, cancelled, nextSyncMutex>>

\* sync.Mutex: Lock returns only while no goroutine holds the mutex
MutexFreeAlways(m) == TRUE
MutexFree(m) == m = None

\* getValidAccessToken: p.tokenMutex.Lock()
GvLock(p) ==
    /\ pc[p] = "gvLock"
    /\ MutexFree(tokenMutex)
    /\ tokenMutex' = p
    /\ pc' = [pc EXCEPT ![p] = "gvLoad"]
    /\ UNCHANGED <<fs, now, connected, syncMutex, nextSyncAt, ticker, loc, budget, lastSaved, serial, cancelled, nextSyncMutex>>

\* lines 179-184: NeedsReauth for every error of getValidAccessToken
needsReauthNever(err) == FALSE
needsReauth(err) == err # "nil"

\* the errors of the search request ListRemoteFiles sends with the token
SearchErrors == {"nil", "search request failed"}

\* getValidAccessToken returns err into its caller and the deferred Unlock
\* runs. GetConnectionStatus returns its status; ListRemoteFiles returns the
\* error, or sends its search request and returns what came of it
GvReturn(p, err, trace) ==
    /\ tokenMutex' = None
    /\ IF loc[p].caller = "GetConnectionStatus"
       THEN loc' = [loc EXCEPT ![p] =
                       Finish(p, "nil", [loc[p].status EXCEPT !.NeedsReauth = needsReauth(err)],
                              Append(trace, [getValidAccessToken |-> err]))]
       ELSE \E searchErr \in SearchErrors :
              loc' = [loc EXCEPT ![p] =
                         Finish(p, IF err # "nil" THEN err ELSE searchErr, None,
                                Append(trace, [getValidAccessToken |-> err]))]
    /\ pc' = [pc EXCEPT ![p] = "done"]

\* lines 321-343: load the credential and decide whether it must be refreshed
GvLoad(p) ==
    /\ pc[p] = "gvLoad"
    /\ LET r == loadTokens(fs) IN
       IF ~r.ok THEN GvReturn(p, "no tokens found", loc[p].trace)
       ELSE IF r.t.AccessToken = EmptyString THEN GvReturn(p, "no access token", loc[p].trace)
       ELSE IF ~ParsesRFC3339(r.t.ExpiresAt) THEN GvReturn(p, "invalid expiry time", loc[p].trace)
       ELSE IF now < ParseRFC3339(r.t.ExpiresAt) THEN GvReturn(p, "nil", loc[p].trace)
       ELSE IF r.t.RefreshToken = EmptyString
            THEN GvReturn(p, "REAUTH_REQUIRED: token expired and no refresh token", loc[p].trace)
       ELSE /\ loc' = [loc EXCEPT ![p].tokens = r.t]
            /\ pc' = [pc EXCEPT ![p] = "gvRefresh"]
            /\ UNCHANGED tokenMutex
    /\ UNCHANGED <<fs, now, connected, syncMutex, nextSyncAt, ticker, budget, lastSaved, serial, cancelled, nextSyncMutex>>

\* the tokens refreshAccessToken builds from a decoded answer and the old
\* tokens t, at time now
refreshedTokensAsAnswered(t, body, time) ==
    [AccessToken |-> body.access_token,
     RefreshToken |-> body.refresh_token,
     ExpiresAt |-> FormatRFC3339(time + body.expires_in),
     AccountName |-> t.AccountName,
     AccountEmail |-> t.AccountEmail]
refreshedTokens(t, body, time) ==
    [AccessToken |-> body.access_token,
     RefreshToken |-> IF body.refresh_token = EmptyString THEN t.RefreshToken
                      ELSE body.refresh_token,
     ExpiresAt |-> FormatRFC3339(time + body.expires_in),
     AccountName |-> t.AccountName,
     AccountEmail |-> t.AccountEmail]

\* the error of refreshAccessToken for an answer, "nil" without one
refreshError(resp) ==
    IF resp.status = 0 THEN "refresh request failed"
    ELSE IF resp.status # 200
         THEN IF ContainsInvalidGrant(resp.body)
              THEN "REAUTH_REQUIRED: refresh token is invalid" ELSE "refresh failed"
    ELSE IF ~resp.body.json THEN "failed to parse refresh response"
    ELSE "nil"

\* refreshAccessToken up to the answer of the token endpoint
GvRefresh(p) ==
    /\ pc[p] = "gvRefresh"
    /\ \E resp \in TokenResponses(serial) :
         LET trace == Append(loc[p].trace,
                             TokenRequest("refresh_token", loc[p].tokens.RefreshToken, resp))
         IN  IF refreshError(resp) # "nil"
             THEN GvReturn(p, refreshError(resp), trace) /\ UNCHANGED serial
             ELSE /\ loc' = [loc EXCEPT
                               ![p].tokens = refreshedTokens(loc[p].tokens, resp.body, now),
                               ![p].trace = trace]
                  /\ pc' = [pc EXCEPT ![p] = "gvStore"]
                  /\ serial' = serial + 2
                  /\ UNCHANGED tokenMutex
    /\ UNCHANGED <<fs, now, connected, syncMutex, nextSyncAt, ticker, budget, lastSaved, cancelled, nextSyncMutex>>

\* p.storeTokens(newTokens) and the return of refreshAccessToken
GvStore(p) ==
    /\ pc[p] = "gvStore"
    /\ LET r == storeTokens(fs, p, loc[p].tokens) IN
       /\ fs' = r.fs
       /\ GvReturn(p, IF r.ok THEN "nil" ELSE "failed to store refreshed tokens", loc[p].trace)
    /\ UNCHANGED <<now, connected, syncMutex, nextSyncAt, ticker, budget, lastSaved, serial, cancelled, nextSyncMutex>>

\* ------------------------------------------------------------------------
\* The calls with each acquisition and release of a lock as a step of its own
\* ------------------------------------------------------------------------
\* Step 2 of Sync: provider.DownloadFile begins with getValidAccessToken, which
\* locks the provider's token mutex
SyncTokenLock(p) ==
    /\ pc[p] = "syncFile"
    /\ MutexFree(tokenMutex)
    /\ tokenMutex' = p
    /\ pc' = [pc EXCEPT ![p] = "syncToken"]
    /\ UNCHANGED <<fs, now, connected, syncMutex, nextSyncAt, ticker, loc, budget, lastSaved, serial, cancelled, nextSyncMutex>>

\* getValidAccessToken returns, with a token or an error: the deferred Unlock
SyncTokenUnlock(p) ==
    /\ pc[p] = "syncToken"
    /\ tokenMutex' = None
    /\ pc' = [pc EXCEPT ![p] = "syncDownload"]
    /\ UNCHANGED <<fs, now, connected, syncMutex, nextSyncAt, ticker, loc, budget, lastSaved, serial, cancelled, nextSyncMutex>>

\* the rest of the first half of Step 2
SyncDownload(p) ==
    /\ pc[p] = "syncDownload"
    /\ SyncFile(p)

\* GetProviderStatus: provider.GetConnectionStatus(ctx, true) calls
\* getValidAccessToken, which locks the token mutex
StatTokenLock(p) ==
    /\ pc[p] = "statBody"
    /\ MutexFree(tokenMutex)
    /\ tokenMutex' = p
    /\ pc' = [pc EXCEPT ![p] = "statToken"]
    /\ UNCHANGED <<fs, now, connected, syncMutex, nextSyncAt, ticker, loc, budget, lastSaved, serial, cancelled, nextSyncMutex>>

\* getValidAccessToken and GetConnectionStatus return; an error of the status
\* ends the call, the nil config makes it panic, and the deferred RUnlock of
\* syncMutex runs in both cases
StatProvider(p) ==
    /\ pc[p] = "statToken"
    /\ tokenMutex' = None
    /\ \E statusErr \in BOOLEAN :
         LET status == GetConnectionStatus(TRUE)
             r == loadConfig(fs)
         IN  IF statusErr
             THEN /\ loc' = [loc EXCEPT ![p] = Returned("status failed", <<>>, None)]
                  /\ pc' = [pc EXCEPT ![p] = "done"]
                  /\ syncMutex' = RUnlock(syncMutex, p)
             ELSE IF ~r.ok
             THEN /\ Panic(p)
                  /\ syncMutex' = RUnlock(syncMutex, p)
             ELSE /\ loc' = [loc EXCEPT ![p].config = r.config,
                                        ![p].status = [NoStatus EXCEPT
                                                          !.Connected = status.Connected,
                                                          !.NeedsReauth = status.NeedsReauth]]
                  /\ pc' = [pc EXCEPT ![p] = "statNext"]
                  /\ UNCHANGED syncMutex
    /\ UNCHANGED <<fs, now, connected, nextSyncAt, ticker, budget, lastSaved, serial, cancelled, nextSyncMutex>>

\* s.nextSyncMutex.RLock()
StatNextLock(p) ==
    /\ pc[p] = "statNext"
    /\ RLockFree(nextSyncMutex)
    /\ nextSyncMutex' = RLock(nextSyncMutex, p)
    /\ pc' = [pc EXCEPT ![p] = "statRead"]
    /\ UNCHANGED <<fs, now, connected, syncMutex, nextSyncAt, ticker, loc, budget, lastSaved, tokenMutex, serial, cancelled>>

\* nextSyncAt is read, s.nextSyncMutex.RUnlock(), and the return with the
\* deferred RUnlock of syncMutex
StatReturn(p) ==
    /\ pc[p] = "statRead"
    /\ nextSyncMutex' = RUnlock(nextSyncMutex, p)
    /\ syncMutex' = RUnlock(syncMutex, p)
    /\ loc' = [loc EXCEPT ![p] =
                  Returned("nil", <<>>,
                           [Connected |-> loc[p].status.Connected,
                            NeedsReauth |-> loc[p].status.NeedsReauth,
                            LastSyncTime |-> loc[p].config.LastSyncTime,
                            NextSyncAt |-> FormatRFC3339(nextSyncAt)])]
    /\ pc' = [pc EXCEPT ![p] = "done"]
    /\ UNCHANGED <<fs, now, connected, nextSyncAt, ticker, budget, lastSaved, tokenMutex, serial, cancelled>>

\* periodicSync after tryPeriodicSync: s.nextSyncMutex.Lock()
LoopNextLock ==
    /\ pc[Loop] = "loopNext"
    /\ LockFree(nextSyncMutex)
    /\ nextSyncMutex' = Lock(nextSyncMutex, Loop)
    /\ pc' = [pc EXCEPT ![Loop] = "loopPublish"]
    /\ UNCHANGED <<fs, now, connected, syncMutex, nextSyncAt, ticker, loc, budget, lastSaved, tokenMutex, serial, cancelled>>

\* s.nextSyncAt = time.Now().Add(s.syncInterval); s.nextSyncMutex.Unlock()
LoopPublish ==
    /\ pc[Loop] = "loopPublish"
    /\ nextSyncAt' = now + defaultSyncInterval
    /\ nextSyncMutex' = Unlock(nextSyncMutex, Loop)
    /\ pc' = [pc EXCEPT ![Loop] = "loopWait"]
    /\ loc' = [loc EXCEPT ![Loop] = NoLoc]
    /\ UNCHANGED <<fs, now, connected, syncMutex, ticker, budget, lastSaved, tokenMutex, serial, cancelled>>

\* the process is started again over the same directory: NewOneDriveProvider
\* runs cleanupStaleCodeVerifier. The history of the first goroutine records it.
NewOneDriveProvider ==
    /\ \A p \in Users : Free(p)
    /\ budget > 0
    /\ budget' = budget - 1
    /\ fs' = cleanupStaleCodeVerifier(fs, now)
    /\ tokenMutex' = None
    /\ pc' = [p \in Procs |-> IF p \in Users THEN "idle" ELSE pc[p]]
    /\ loc' = [p \in Procs |->
                 IF p = "u1"
                 THEN [NoLoc EXCEPT !.snap = fs, !.trace = <<[call |-> "NewOneDriveProvider"]>>]
                 ELSE IF p \in Users THEN NoLoc ELSE loc[p]]
    /\ UNCHANGED <<now, connected, syncMutex, nextSyncAt, ticker, lastSaved, serial, cancelled, nextSyncMutex>>

\* ------------------------------------------------------------------------
\* Registry.Discover
\* ------------------------------------------------------------------------
\* a settings.json as os.ReadFile and json.Unmarshal see it: whether it exists,
\* whether it can be read, whether its bytes are a JSON object, and the value
\* of the one field its reader looks at (baseUrl or clientId), the empty string
\* when the field is absent
SettingsFile(exists, readable, json, field) ==
    [exists |-> exists, readable |-> readable, json |-> json, field |-> field]

SettingsFiles ==
    { SettingsFile(FALSE, FALSE, FALSE, EmptyString),
      SettingsFile(TRUE, FALSE, TRUE, <<"v">>),
      SettingsFile(TRUE, TRUE, FALSE, EmptyString),
      SettingsFile(TRUE, TRUE, TRUE, EmptyString),
      SettingsFile(TRUE, TRUE, TRUE, <<"v">>) }

\* os.ReadFile
ReadFile(f) ==
    IF ~f.exists THEN [err |-> "not exist", data |-> SettingsFile(FALSE, FALSE, FALSE, EmptyString)]
    ELSE IF ~f.readable
         THEN [err |-> "permission denied", data |-> SettingsFile(FALSE, FALSE, FALSE, EmptyString)]
    ELSE [err |-> "nil", data |-> f]

\* the names below the safes directory: the registered backends and a folder
\* no factory is registered for
EntryNames == <<"onedrive", "testprovider", "unknown">>

\* Registry.factories after main and the tests registered theirs
factories == {"onedrive", "testprovider"}

\* what is below the safes directory under a name: nothing, a file, or a
\* directory with its settings.json
DirEntries ==
    { [kind |-> "absent", settings |-> SettingsFile(FALSE, FALSE, FALSE, EmptyString)],
      [kind |-> "file", settings |-> SettingsFile(FALSE, FALSE, FALSE, EmptyString)] }
    \cup { [kind |-> "dir", settings |-> f] : f \in SettingsFiles }

\* the safes directories Discover may be called on: the root settings.json,
\* whether the directory can be listed, and its entries by name
DiscoverInputs ==
    [root : SettingsFiles, listable : BOOLEAN, entries : [1..Len(EntryNames) -> DirEntries]]

\* a provider a factory created
Provider(id, dir, baseURL, clientID) ==
    [id |-> id, dir |-> dir, baseURL |-> baseURL, clientID |-> clientID]

\* onedrive.Factory, which wants JSON settings with a clientId, and the tests'
\* mockFactory, which takes any bytes
Factory(providerID, dir, baseURL, settingsJSON) ==
    IF providerID = "onedrive" /\ ~settingsJSON.json
    THEN [err |-> "invalid settings.json", provider |-> Provider(providerID, <<>>, <<>>, <<>>)]
    ELSE IF providerID = "onedrive" /\ settingsJSON.field = EmptyString
    THEN [err |-> "clientId is required in settings.json",
          provider |-> Provider(providerID, <<>>, <<>>, <<>>)]
    ELSE [err |-> "nil",
          provider |-> Provider(providerID, dir, baseURL,
                                IF providerID = "onedrive" THEN settingsJSON.field ELSE EmptyString)]

\* lines 58-95: the loop over the entries from the k-th on; providers holds the
\* backends created so far
RECURSIVE DiscoverEntries(_, _, _, _)
DiscoverAborted(input, k, baseURL, providers) == providers
DiscoverSkipped(input, k, baseURL, providers) ==
    DiscoverEntries(input, k + 1, baseURL, providers)
DiscoverEntries(input, k, baseURL, providers) ==
    IF k > Len(EntryNames) THEN providers
    ELSE LET entry == input.entries[k]
             providerID == EntryNames[k]
             dir == Join(safesDirectory, << <<providerID>> >>)
             settings == ReadFile(entry.settings)
             made == Factory(providerID, dir, baseURL, settings.data)
         IN  IF entry.kind = "absent" THEN DiscoverEntries(input, k + 1, baseURL, providers)
             ELSE IF entry.kind # "dir" THEN DiscoverSkipped(input, k, baseURL, providers)
             ELSE IF providerID \notin factories
                  THEN DiscoverSkipped(input, k, baseURL, providers)
             ELSE IF settings.err # "nil" THEN DiscoverSkipped(input, k, baseURL, providers)
             ELSE IF made.err # "nil" THEN DiscoverSkipped(input, k, baseURL, providers)
             ELSE DiscoverEntries(input, k + 1, baseURL, providers \cup {made.provider})

\* Registry.Discover: the error and the providers it returns (none with an
\* error)
Discover(input) ==
    LET rootData == ReadFile(input.root) IN
    IF rootData.err = "not exist"
    THEN [err |-> "settings.json not found: baseUrl is required", providers |-> {}]
    ELSE IF rootData.err # "nil"
    THEN [err |-> "failed to read settings.json", providers |-> {}]
    ELSE IF ~rootData.data.json THEN [err |-> "invalid settings.json", providers |-> {}]
    ELSE IF rootData.data.field = EmptyString
    THEN [err |-> "baseUrl is required in settings.json", providers |-> {}]
    ELSE IF ~input.listable
    THEN [err |-> "failed to read safes directory", providers |-> {}]
    ELSE [err |-> "nil", providers |-> DiscoverEntries(input, 1, rootData.data.field, {})]

\* main calls registry.Discover(cfg.SafesDirectory) once, at the start
CallDiscover ==
    /\ pc["u1"] = "discover"
    /\ pc' = [pc EXCEPT !["u1"] = "done"]
    /\ loc' = [loc EXCEPT !["u1"].value = Discover(loc["u1"].arg)]
    /\ UNCHANGED <<fs, now, connected, syncMutex, nextSyncAt, ticker, budget, lastSaved, tokenMutex, serial, cancelled, nextSyncMutex>>

\* ------------------------------------------------------------------------
\* Specifications
\* ------------------------------------------------------------------------
SyncSteps(p) ==
    \/ SyncLock(p) \/ SyncCheck(p) \/ SyncLoad(p) \/ SyncFile(p) \/ SyncCopy(p)
    \/ SyncCleanup(p) \/ SyncWrite(p)

Next ==
    \/ \E p \in Users :
         \/ CallSync(p) \/ CallSaveFiles(p) \/ CallStatus(p) \/ CallListFiles(p)
         \/ CallDisconnect(p)
         \/ SaveLoad(p) \/ SaveOpen(p) \/ SaveWrite(p)
         \/ StatLock(p) \/ StatBody(p)
         \/ ListLoad(p) \/ ListRemote(p)
         \/ DiscProvider(p) \/ DiscConfig(p) \/ DiscFiles(p)
    \/ \E p \in Procs : SyncSteps(p)
    \/ LoopTick \/ LoopCheck \/ LoopNext
    \/ Tick \/ HandleCallback

Spec == Init /\ [][Next]_vars

\* no goroutine is inside a call
Quiescent == \A p \in Procs : pc[p] \in {"idle", "done", "loopWait"}

\* the runs in which a request or a periodic tick is served only after the
\* call before it returned
InitSeq == InitWith(MaxSeqOps)

NextSeq ==
    \/ /\ Quiescent
       /\ \/ CallSync("u1") \/ CallSaveFiles("u1") \/ CallStatus("u1")
          \/ CallListFiles("u1") \/ CallDisconnect("u1")
          \/ LoopTick
    \/ \E p \in Procs : SyncSteps(p)
    \/ SaveLoad("u1") \/ SaveOpen("u1") \/ SaveWrite("u1")
    \/ StatLock("u1") \/ StatBody("u1")
    \/ ListLoad("u1") \/ ListRemote("u1")
    \/ DiscProvider("u1") \/ DiscConfig("u1") \/ DiscFiles("u1")
    \/ LoopCheck \/ LoopNext
    \/ Tick \/ HandleCallback

SpecSeq == InitSeq /\ [][NextSeq]_vars

\* the runs in which the only calls are Syncs, of requests that overlap and of
\* the periodic loop
InitSync == InitWith(MaxSyncOps)

NextSync ==
    \/ \E p \in Users : CallSync(p)
    \/ \E p \in Procs : SyncSteps(p)
    \/ LoopTick \/ LoopCheck \/ LoopNext
    \/ Tick \/ HandleCallback

SpecSync == InitSync /\ [][NextSync]_vars

\* the runs of the periodic loop and of Syncs of requests in which the service
\* is stopped at some moment
InitStop == InitWith(MaxStopOps)

NextStop ==
    \/ NextSync
    \/ Stop \/ LoopStop

SpecStop == InitStop /\ [][NextStop]_vars

\* the runs in which the selection is saved from bodies that a client crafted,
\* and Syncs of requests and of the periodic loop follow
MaxCraftedOps == 3

InitCrafted == InitWith(MaxCraftedOps)

NextCrafted ==
    \/ \E p \in Users :
         \/ CallSaveFilesCrafted(p)
         \/ SaveLoad(p) \/ SaveOpen(p) \/ SaveWrite(p)
    \/ NextSync

SpecCrafted == InitCrafted /\ [][NextCrafted]_vars

\* the runs in which one request disconnects the backend while the Sync of
\* another request is under way; no SaveFiles and no later Sync takes part
MaxDisconnectOps == 3

InitDisconnect == InitWith(MaxDisconnectOps)

NextDisconnect ==
    \/ CallDisconnect("u1")
    \/ DiscProvider("u1") \/ DiscConfig("u1") \/ DiscFiles("u1")
    \/ CallSync("u2")
    \/ SyncSteps("u2")

SpecDisconnect == InitDisconnect /\ [][NextDisconnect]_vars

\* the credentials an earlier run of the provider left behind: expired at time
\* 0, still valid until time 2, with an expiry that is no timestamp or is empty,
\* or without one of the two tokens
PriorTokens ==
    [AccessToken |-> <<"tok", -1>>, RefreshToken |-> <<"tok", 0>>,
     ExpiresAt |-> FormatRFC3339(0),
     AccountName |-> <<"alice">>, AccountEmail |-> <<"alice@example.com">>]

TokensDisk(t) == storeTokens(EmptyFS, Loop, t).fs

ODInitialDisks ==
    { EmptyFS,
      TokensDisk(PriorTokens),
      TokensDisk([PriorTokens EXCEPT !.ExpiresAt = FormatRFC3339(2)]),
      TokensDisk([PriorTokens EXCEPT !.ExpiresAt = BadTime]),
      TokensDisk([PriorTokens EXCEPT !.ExpiresAt = EmptyString]),
      TokensDisk([PriorTokens EXCEPT !.AccessToken = EmptyString]),
      TokensDisk([PriorTokens EXCEPT !.RefreshToken = EmptyString]) }

\* the runs of the OneDrive provider alone, one call at a time, while time
\* passes and the process may be started again
InitODWith(n) ==
    /\ fs \in ODInitialDisks
    /\ now = 1
    /\ connected = FALSE
    /\ syncMutex = [w |-> None, r |-> {}]
    /\ nextSyncAt = now + defaultSyncInterval
    /\ ticker = [next |-> now + defaultSyncInterval, pending |-> FALSE]
    /\ pc = [p \in Procs |-> IF p = Loop THEN "loopWait" ELSE "idle"]
    /\ loc = [p \in Procs |-> NoLoc]
    /\ budget = n
    /\ lastSaved = None
    /\ tokenMutex = None
    /\ serial = 0
    /\ cancelled = FALSE
    /\ nextSyncMutex = [w |-> None, r |-> {}]

InitOD == InitODWith(MaxODOps)

ProviderSteps(p) ==
    \/ AuthStore(p)
    \/ CbLoad(p) \/ CbExchange(p) \/ CbStore(p) \/ CbDelete(p)
    \/ PdTokens(p) \/ PdVerifier(p)
    \/ GsLoad(p) \/ GvLock(p) \/ GvLoad(p) \/ GvRefresh(p) \/ GvStore(p)

NextOD ==
    \/ CallGetAuthURL("u1") \/ CallHandleCallback("u1")
    \/ CallProviderDisconnect("u1") \/ CallGetConnectionStatus("u1")
    \/ CallListRemoteFiles("u1")
    \/ ProviderSteps("u1")
    \/ NewOneDriveProvider
    \/ Tick

SpecOD == InitOD /\ [][NextOD]_vars

\* the runs in which requests that overlap call getValidAccessToken on one
\* provider: status checks and listings, while time passes
InitRefresh == InitODWith(MaxRefreshOps)

NextRefresh ==
    \/ \E p \in Users :
         \/ CallGetConnectionStatus(p) \/ CallListRemoteFiles(p)
         \/ GsLoad(p) \/ GvLock(p) \/ GvLoad(p) \/ GvRefresh(p) \/ GvStore(p)
    \/ Tick

SpecRefresh == InitRefresh /\ [][NextRefresh]_vars

\* the runs in which one request after the other authorizes or disconnects the
\* provider while a second request, a status check or a listing, is inside
\* getValidAccessToken, and time passes
MaxRaceOps == 3

InitRace == InitODWith(MaxRaceOps)

NextRace ==
    \/ CallGetAuthURL("u1") \/ CallHandleCallback("u1") \/ CallProviderDisconnect("u1")
    \/ AuthStore("u1")
    \/ CbLoad("u1") \/ CbExchange("u1") \/ CbStore("u1") \/ CbDelete("u1")
    \/ PdTokens("u1") \/ PdVerifier("u1")
    \/ CallGetConnectionStatus("u2") \/ CallListRemoteFiles("u2")
    \/ GsLoad("u2") \/ GvLock("u2") \/ GvLoad("u2") \/ GvRefresh("u2") \/ GvStore("u2")
    \/ Tick

SpecRace == InitRace /\ [][NextRace]_vars

\* the runs of Syncs of requests and of the periodic loop, status queries and
\* SaveFiles in which every acquisition and release of syncMutex, nextSyncMutex
\* and the token mutex is a step
MaxLockOps == 3

InitLocks == InitWith(MaxLockOps)

\* the steps of one goroutine inside its calls
LockSteps(p) ==
    \/ SyncLock(p) \/ SyncCheck(p) \/ SyncLoad(p)
    \/ SyncTokenLock(p) \/ SyncTokenUnlock(p) \/ SyncDownload(p)
    \/ SyncCopy(p) \/ SyncCleanup(p) \/ SyncWrite(p)
    \/ /\ p \in Users
       /\ \/ StatLock(p) \/ StatTokenLock(p) \/ StatProvider(p)
          \/ StatNextLock(p) \/ StatReturn(p)
          \/ SaveLoad(p) \/ SaveOpen(p) \/ SaveWrite(p)
    \/ /\ p = Loop
       /\ (LoopCheck \/ LoopNextLock \/ LoopPublish)

NextLocks ==
    \/ \E p \in Users : CallSync(p) \/ CallStatus(p) \/ CallSaveFiles(p)
    \/ \E p \in Procs : LockSteps(p)
    \/ LoopTick
    \/ Tick \/ HandleCallback

SpecLocks == InitLocks /\ [][NextLocks]_vars

\* a goroutine inside a call can take its next step: it waits for no lock, or
\* the lock it waits for is free
LockEnabled(p) ==
    \/ pc[p] = "syncLock" /\ LockFree(syncMutex)
    \/ pc[p] \in {"syncFile", "statBody"} /\ MutexFree(tokenMutex)
    \/ pc[p] = "statLock" /\ RLockFree(syncMutex)
    \/ pc[p] = "statNext" /\ RLockFree(nextSyncMutex)
    \/ pc[p] = "loopNext" /\ LockFree(nextSyncMutex)
    \/ pc[p] \in {"syncCheck", "syncLoad", "syncToken", "syncDownload", "syncCopy",
                  "syncCleanup", "syncWrite", "statToken", "statRead",
                  "saveLoad", "saveOpen", "saveWrite", "loopCheck", "loopPublish"}

\* LockEnabled is what enables the steps of LockSteps
LockEnabledIsEnabled == \A p \in Procs : LockEnabled(p) <=> ENABLED LockSteps(p)

\* the positions a step of LockSteps leads to
LockPcs ==
    {"syncLock", "syncCheck", "syncLoad", "syncFile", "syncToken", "syncDownload",
     "syncCopy", "syncCleanup", "syncWrite", "statBody", "statToken", "statNext",
     "statRead", "saveOpen", "saveWrite", "done", "loopNext", "loopPublish", "loopWait"}

\* a step of LockSteps, told by what it does to the positions: the goroutine
\* was able to step and it alone moved
LockMove(p) ==
    /\ LockEnabled(p)
    /\ \E next \in LockPcs \ {pc[p]} : pc' = [pc EXCEPT ![p] = next]

\* the Go scheduler runs every goroutine that can run, and Lock and RLock
\* return once the mutex is free: a goroutine that can take a step in its call
\* takes it
SpecLocksFair == SpecLocks /\ \A p \in Procs : WF_pc(LockMove(p))

\* the start of the process over every safes directory: main calls Discover
InitDiscover ==
    /\ fs = EmptyFS
    /\ now = 1
    /\ connected = FALSE
    /\ syncMutex = [w |-> None, r |-> {}]
    /\ nextSyncAt = now + defaultSyncInterval
    /\ ticker = [next |-> now + defaultSyncInterval, pending |-> FALSE]
    /\ pc = [p \in Procs |-> IF p = "u1" THEN "discover" ELSE "idle"]
    /\ \E input \in DiscoverInputs :
         loc = [p \in Procs |-> IF p = "u1" THEN [NoLoc EXCEPT !.arg = input] ELSE NoLoc]
    /\ budget = 0
    /\ lastSaved = None
    /\ tokenMutex = None
    /\ serial = 0
    /\ cancelled = FALSE
    /\ nextSyncMutex = [w |-> None, r |-> {}]

NextDiscover == CallDiscover

SpecDiscover == InitDiscover /\ [][NextDiscover]_vars

\* ------------------------------------------------------------------------
\* Properties
\* ------------------------------------------------------------------------
\* a goroutine between the acquisition of syncMutex by Sync and its return
InSyncBody(p) ==
    pc[p] \in {"syncCheck", "syncLoad", "syncFile", "syncCopy", "syncCleanup", "syncWrite"}

\* at most one goroutine is in the body of Sync, it holds the write lock, and
\* a caller that waits can take the lock once no body and no reader holds it
C1_SingleFlightState ==
    /\ Cardinality({p \in Procs : InSyncBody(p)}) <= 1
    /\ \A p \in Procs : InSyncBody(p) <=> syncMutex.w = p
    /\ \A p \in Procs :
         pc[p] = "syncLock" /\ (\A q \in Procs : ~InSyncBody(q)) /\ syncMutex.r = {}
            => ENABLED SyncLock(p)

\* C1: Sync is single-flight. At most one goroutine, of a request or of the
\* periodic loop, is in the body of Sync; the write lock is held by that
\* goroutine and by nobody else, so a caller waiting for the lock can take it as
\* soon as the body is left; and a waiting caller leaves the wait only into the
\* body: it is not turned away.
C1_SingleFlight ==
    /\ []C1_SingleFlightState
    /\ [][\A p \in Procs : pc[p] = "syncLock" => pc'[p] \in {"syncLock", "syncCheck"}]_vars

\* one Sync is in its body while a second caller waits for the lock
C1_Witness ==
    \E p, q \in Procs : p # q /\ InSyncBody(p) /\ pc[q] = "syncLock"

\* the selected files of Sync downloaded one after the other with nothing in
\* between, under the faults and with the streams of trace
RECURSIVE Downloads(_, _, _, _)
Downloads(f, p, files, trace) ==
    IF files = <<>> THEN f
    ELSE LET e == Head(trace)
             b == downloadBegin(f, p, Head(files), e.begin)
         IN  Downloads(IF b.err # None THEN b.fs
                       ELSE downloadEnd(b.fs, p, Head(files), e.end, e.data).fs,
                       p, Tail(files), Tail(trace))

\* the disk a Sync by p leaves that finds the disk f, passes the connection
\* check and runs from the load of the config to its return with no step of
\* another goroutine in between
AtomicSync(f, p, trace, stamp) ==
    LET r == loadConfig(f)
        selectedFiles == selectedOf(r.config)
        cleaned == cleanupUnselectedFiles(Downloads(f, p, selectedFiles, trace), selectedFiles)
        opened == saveConfigOpen(cleaned, p)
    IN  IF ~r.ok THEN f
        ELSE IF ~opened.ok THEN opened.fs
        ELSE saveConfigWrite(opened.fs, p, [r.config EXCEPT !.LastSyncTime = stamp], FALSE)

\* the step with which p returns from Sync
SyncReturns(p) == InSyncBody(p) /\ pc'[p] = Return(p)

\* C2: concurrent Syncs are serialized. Among Syncs that overlap in any way, the
\* disk (mirror tree and .config.json) at the return of each is the disk it
\* found when it took the lock with that one Sync applied to it in one piece
\* (the disk it found, when it returns an error), so that the disk after two
\* Syncs is the one of the two run one after the other, in the order in which
\* they took the lock; and between Syncs .config.json decodes: it is never a mix
\* of two writes.
C2_SyncsSerialized ==
    /\ [][\A p \in Procs :
            SyncReturns(p) =>
               fs' = IF loc'[p].err = "nil"
                     THEN AtomicSync(loc[p].snap, p, loc[p].trace, loc[p].config.LastSyncTime)
                     ELSE loc[p].snap]_vars
    /\ []((\A p \in Procs : ~InSyncBody(p)) => loadConfig(fs).ok)

\* two requests whose Syncs overlapped have both returned their results, and
\* the second of them downloaded a file
C2_Witness ==
    /\ \A p \in Users : pc[p] = "done" /\ loc[p].err = "nil"
    /\ \E k \in DOMAIN loc["u2"].results : loc["u2"].results[k].Success

\* C3: a Sync whose connection check finds the provider disconnected ends at
\* the check with the error "not authenticated" and with no results (with the
\* error of the check when the provider could not report a status at all); no
\* step of that Sync, the acquisition of the lock and the check, changes the
\* disk: no directory, mirror file or temp file appears or disappears and
\* .config.json, lastSyncTime included, keeps its content.
C3_NotAuthenticated ==
    [][\A p \in Procs :
         /\ pc[p] \in {"syncLock", "syncCheck"} /\ pc'[p] # pc[p] => fs' = fs
         /\ pc[p] = "syncCheck" /\ pc'[p] # pc[p] /\ ~connected =>
               /\ pc'[p] = Return(p)
               /\ loc'[p].results = <<>>
               /\ loc'[p].err # "failed to check connection status"
                     => loc'[p].err = "not authenticated"]_vars

\* a Sync returned "not authenticated" over a disk that holds a mirror
C3_Witness ==
    \E p \in Procs :
       /\ pc[p] = Return(p) /\ loc[p].err = "not authenticated"
       /\ Exists(fs, configPath)

SaveInProgress(p) == pc[p] \in {"saveLoad", "saveOpen", "saveWrite"}

\* C4: whenever no SaveFiles is in progress, the files of .config.json are the
\* argument of the last SaveFiles that returned, whatever Syncs and queries ran
\* meanwhile. (Stated for the states in which the file exists and decodes, so
\* that a violation is a list written back, not a write seen half done.)
C4_FilesAreLastSaved ==
    /\ \A p \in Users : ~SaveInProgress(p)
    /\ lastSaved # None
    /\ Exists(fs, configPath) /\ loadConfig(fs).ok
    => loadConfig(fs).config.Files = lastSaved

\* the non-hidden .psafe3 files below the mirror root
MirrorFiles(f) ==
    {x \in Walked(f) : HasPsafe3Suffix(Base(x)) /\ ~HasDotPrefix(Base(x))}

\* mirror root / parent path without its leading separator / name
MirrorPath(file) == providerDir \o TrimPrefixSep(file.Path) \o <<file.Name>>

AllSucceeded(results) == \A k \in DOMAIN results : results[k].Success

\* C5: when a Sync returns and every download of it succeeded, the non-hidden
\* .psafe3 files below the mirror root are exactly the files at mirror root /
\* parent path / name of the persisted entries with selected = true, and each
\* holds the stream the provider served for the entry's id in this Sync; none is
\* there when nothing is selected or no config was persisted.
C5_MirrorIsSelection ==
    [][\A p \in Procs :
         SyncReturns(p) /\ loc'[p].err = "nil" /\ AllSucceeded(loc'[p].results) =>
            LET persisted == selectedOf(loadConfig(fs').config)
                trace == loc[p].trace
            IN  /\ loadConfig(fs').ok
                /\ MirrorFiles(fs') = {MirrorPath(persisted[k]) : k \in DOMAIN persisted}
                /\ Len(trace) = Len(persisted)
                /\ \A k \in DOMAIN persisted :
                      /\ trace[k].data.kind = "data"
                      /\ trace[k].data.id = persisted[k].ID
                      /\ fs'.files[MirrorPath(persisted[k])] = trace[k].data]_vars

\* a Sync over a disk without a mirror returned, both selected files downloaded
C5_Witness ==
    \E p \in Procs :
       /\ pc[p] = Return(p) /\ loc[p].err = "nil"
       /\ Len(loc[p].results) = 2 /\ AllSucceeded(loc[p].results)
       /\ \A k \in DOMAIN RemoteFiles :
            /\ IsFile(fs, getLocalPath(RemoteFiles[k]))
            /\ fs.files[getLocalPath(RemoteFiles[k])].ver >= 1

\* the directories strictly below the mirror root on the way to path x
ParentsBelowRoot(x) == {d \in Prefixes(Dir(x)) : Len(d) > Len(providerDir)}

\* C6: the cleanup pass of Sync removes the mirrored .psafe3 files that are not
\* selected and nothing else; a directory disappears only if it lies strictly
\* below the mirror root, led to a removed file and is left without an entry;
\* every directory between a removed file and the mirror root that is left
\* without an entry is removed (the pruning goes up to the first directory that
\* is not empty); and the mirror root is there after the pass.
C6_CleanupPrunes ==
    [][\A p \in Procs :
         pc[p] = "syncCleanup" /\ pc'[p] # pc[p] =>
            LET selectedPaths == selectedPathsOf(loc[p].selectedFiles)
                removed == DOMAIN fs.files \ DOMAIN fs'.files
                gone == fs.dirs \ fs'.dirs
            IN  /\ removed = MirrorFiles(fs) \ selectedPaths
                /\ \A x \in DOMAIN fs.files \ (removed \cup {configPath}) :
                      fs'.files[x] = fs.files[x]
                /\ \A d \in gone :
                      /\ Entries(fs', d) = {}
                      /\ \E x \in removed : d \in ParentsBelowRoot(x)
                /\ \A x \in removed : \A d \in ParentsBelowRoot(x) :
                      Entries(fs', d) = {} => ~IsDir(fs', d)
                /\ IsDir(fs', providerDir)]_vars

\* the second Sync of the scenario after its cleanup: it found a.psafe3
\* mirrored below Documents/Passwords, nothing is selected any more, and the
\* file and both directories are gone while the mirror root is there
C6_Witness ==
    \E p \in Procs :
       /\ pc[p] = "syncWrite"
       /\ loc[p].selectedFiles = <<>>
       /\ IsFile(loc[p].snap, getLocalPath(RemoteA))
       /\ ~IsFile(fs, getLocalPath(RemoteA))
       /\ \A d \in ParentsBelowRoot(getLocalPath(RemoteA)) : ~IsDir(fs, d)
       /\ IsDir(fs, providerDir)

\* the error of a file's result under an injected fault
FaultError(fault) ==
    CASE fault = "mkdir" -> "failed to create directory"
      [] fault = "download" -> "download failed"
      [] fault = "create" -> "failed to create temp file"
      [] fault = "copy" -> "failed to write file"
      [] fault = "rename" -> "failed to finalize file"
      [] OTHER -> None

\* C7: a Sync on a backend whose status reports connected returns a nil error
\* and one result for each persisted entry with selected = true, in persisted
\* order and under its name. The result of a file is a failure exactly when a
\* step of that file failed (directory creation, download, creation or write
\* of the temp file, rename), its error then names the step; failures of other
\* files do not show in it, and the files after a failed one are processed.
C7_ResultPerFile ==
    [][\A p \in Procs :
         SyncReturns(p) /\ connected
            /\ loc'[p].err # "failed to check connection status" =>
            LET selected == selectedOf(loadConfig(loc[p].snap).config)
                results == loc'[p].results
                trace == loc[p].trace
            IN  /\ loc'[p].err = "nil"
                /\ Len(results) = Len(selected)
                /\ Len(trace) = Len(selected)
                /\ \A k \in DOMAIN selected :
                      LET fault == IF trace[k].begin # "none" THEN trace[k].begin
                                   ELSE trace[k].end
                      IN  /\ results[k].Name = selected[k].Name
                          /\ results[k].Success <=> fault = "none"
                          /\ results[k].Error = FaultError(fault)]_vars

\* a Sync returned whose first file failed and whose second file was mirrored
C7_Witness ==
    \E p \in Procs :
       /\ pc[p] = Return(p) /\ loc[p].err = "nil"
       /\ Len(loc[p].results) = 2
       /\ ~loc[p].results[1].Success /\ loc[p].results[1].Error # None
       /\ loc[p].results[2].Success
       /\ fs.files[getLocalPath(RemoteB)].ver >= 1

\* C8: a Sync that has loaded the config does not return before it has written
\* it back: whatever the outcome of each file, it goes through all files to the
\* cleanup; at the cleanup, with a result for every selected file and the
\* unselected files removed, it stamps the config with the current time; and at
\* its return .config.json holds that stamp.
C8_StampsLastSyncTime ==
    [][\A p \in Procs :
         /\ pc[p] \in {"syncFile", "syncCopy"} /\ pc'[p] # pc[p] =>
               pc'[p] \in {"syncFile", "syncCopy", "syncCleanup"}
         /\ pc[p] = "syncCleanup" /\ pc'[p] # pc[p] =>
               /\ pc'[p] = "syncWrite"
               /\ Len(loc[p].results) = Len(loc[p].selectedFiles)
               /\ MirrorFiles(fs') \subseteq selectedPathsOf(loc[p].selectedFiles)
               /\ loc'[p].config.LastSyncTime = FormatRFC3339(now)
         /\ pc[p] = "syncWrite" /\ pc'[p] # pc[p] =>
               /\ pc'[p] = Return(p) /\ loc'[p].err = "nil"
               /\ loadConfig(fs').ok
               /\ loadConfig(fs').config.LastSyncTime = loc[p].config.LastSyncTime
               /\ loadConfig(fs').config.LastSyncTime # NoTime]_vars

\* a Sync in which a file failed returned, and .config.json holds the time of
\* that Sync
C8_Witness ==
    \E p \in Procs :
       /\ pc[p] = Return(p) /\ loc[p].err = "nil"
       /\ \E k \in DOMAIN loc[p].results : ~loc[p].results[k].Success
       /\ now > 1
       /\ loadConfig(fs).config.LastSyncTime = FormatRFC3339(now)

\* the files a Sync can be asked to mirror: the entries of the lists SaveFiles
\* is called with
SelectableFiles == UNION {{files[k] : k \in DOMAIN files} : files \in SaveArgs}

\* C9: at every point of every run, the final local path of a mirrored file
\* does not exist or holds the complete stream of a download of that file, an
\* earlier one or the current one; the first bytes of a stream are in a file
\* named <final path>.tmp and nowhere else.
C9_NoPartialAtFinalPath ==
    /\ \A file \in SelectableFiles :
         LET localPath == getLocalPath(file) IN
         IsFile(fs, localPath) =>
            \E t \in 0..now : fs.files[localPath] = Content(file.ID, t)
    /\ \A x \in DOMAIN fs.files :
         /\ HasPsafe3Suffix(Base(x)) => fs.files[x].kind = "data"
         /\ fs.files[x] = Partial =>
               \E file \in SelectableFiles :
                  x = Dir(getLocalPath(file)) \o <<file.Name \o <<".tmp">> >>

\* a download is under way: the temp file holds the first bytes while the final
\* path still holds the stream of the earlier download
C9_Witness ==
    \E p \in Procs :
       /\ pc[p] = "syncCopy"
       /\ fs.files[TmpPath(getLocalPath(CurrentFile(p)))] = Partial
       /\ IsFile(fs, getLocalPath(CurrentFile(p)))
       /\ fs.files[getLocalPath(CurrentFile(p))] = Content(CurrentFile(p).ID, 0)
       /\ now > 1

\* no Sync is in its body while a status query is in its own, and a query at
\* the lock can take it exactly when no Sync is in its body
C10_StatusOutsideSyncState ==
    \A p \in Users :
       /\ pc[p] = "statBody" =>
             /\ \A q \in Procs : ~InSyncBody(q)
             /\ syncMutex.w = None /\ p \in syncMutex.r
       /\ pc[p] = "statLock" =>
             (ENABLED StatLock(p) <=> \A q \in Procs : ~InSyncBody(q))

\* C10: GetProviderStatus does not run inside a Sync. While a goroutine is in
\* the body of GetProviderStatus no goroutine is in the body of Sync and nobody
\* holds the write lock, so the config it reads is one no Sync is about to
\* change; a query that arrives during a Sync cannot take the read lock, and one
\* that arrives when no Sync runs can, other queries running or not. The
\* lastSyncTime a query returns is the one of the config on disk at that moment.
C10_StatusOutsideSync ==
    /\ []C10_StatusOutsideSyncState
    /\ [][\A p \in Users :
            pc[p] = "statBody" /\ pc'[p] = "done" /\ loc'[p].err = "nil" =>
               /\ \A q \in Procs : ~InSyncBody(q)
               /\ loc'[p].value.LastSyncTime = loadConfig(fs).config.LastSyncTime]_vars

\* a status query waits at the lock while a Sync is about to write the config
C10_Witness ==
    \E p \in Users, q \in Procs : pc[p] = "statLock" /\ pc[q] = "syncWrite"

\* the .psafe3 files below the mirror root, hidden ones included
SafeFiles(f) == {x \in Walked(f) : HasPsafe3Suffix(Base(x))}

\* C11: Disconnect carries out both local cleanup steps even when the
\* provider's Disconnect returned an error: once such a Disconnect has
\* returned, .config.json is gone and no .psafe3 file is left in the mirror.
C11_CleanupDespiteProviderError ==
    \A p \in Users :
       pc[p] = "done" /\ loc[p].err = "disconnect failed" /\ Quiescent =>
          ~Exists(fs, configPath) /\ SafeFiles(fs) = {}

\* C12: a Disconnect that returns nil has called the provider's Disconnect
\* once, and at its return .config.json does not
\* exist and no .psafe3 file, hidden or not, at any depth, is left below the
\* mirror root; and the nil return is the one at the end of the cleanup.
C12_DisconnectCleans ==
    [][\A p \in Users :
         /\ pc[p] = "discFiles" /\ pc'[p] # pc[p] =>
               /\ pc'[p] = "done" /\ loc'[p].err = "nil"
               /\ loc'[p].trace = <<[call |-> "provider.Disconnect"]>>
               /\ ~Exists(fs', configPath)
               /\ SafeFiles(fs') = {}
         /\ pc[p] \in {"discProvider", "discConfig"} /\ pc'[p] # pc[p] =>
               pc'[p] # "done" \/ loc'[p].err # "nil"]_vars

\* a Disconnect returned nil that found the config, mirrored files in nested
\* directories and a hidden .psafe3 file
C12_Witness ==
    \E p \in Users :
       /\ pc[p] = "done" /\ loc[p].err = "nil"
       /\ loc[p].trace = <<[call |-> "provider.Disconnect"]>>
       /\ IsFile(loc[p].snap, configPath)
       /\ IsFile(loc[p].snap, HiddenSafe)
       /\ IsFile(loc[p].snap, getLocalPath(RemoteA))
       /\ SafeFiles(fs) = {} /\ ~Exists(fs, configPath)

\* the files list of the config on disk, as loadConfig decodes it
PersistedFiles(f) == loadConfig(f).config.Files

\* the answer of the provider in a ListFiles that has returned
ListAnswer(l) == l.trace[1]

\* C13: when the provider's ListRemoteFiles fails, ListFiles returns a nil
\* error and exactly the persisted selection list, the empty list when no
\* config file exists; the failure of the remote never becomes an error of
\* ListFiles.
C13_ListFallsBack ==
    [][\A p \in Users :
         pc[p] = "listRemote" /\ pc'[p] = "done" /\ ListAnswer(loc'[p]).err =>
            /\ loc'[p].err = "nil"
            /\ loc'[p].value = PersistedFiles(fs)
            /\ ~IsFile(fs, configPath) => loc'[p].value = <<>>]_vars

C13_Witness ==
    \E p \in Users :
       /\ pc[p] = "done" /\ loc[p].trace = <<[err |-> TRUE, files |-> <<>>]>>
       /\ loc[p].err = "nil"
       /\ loc[p].value = <<SelectedFile(RemoteA, FALSE), SelectedFile(RemoteB, TRUE)>>

\* C14: when ListRemoteFiles succeeds, ListFiles returns one entry per remote
\* file, in remote order, with the remote id, name and path; selected is the
\* persisted flag of the entry with the same id and false when no persisted
\* entry has that id; persisted entries whose id is not listed do not appear.
C14_ListMerges ==
    [][\A p \in Users :
         pc[p] = "listRemote" /\ pc'[p] = "done" /\ ~ListAnswer(loc'[p]).err =>
            LET remote == ListAnswer(loc'[p]).files
                saved == PersistedFiles(fs)
                result == loc'[p].value
            IN  /\ loc'[p].err = "nil"
                /\ Len(result) = Len(remote)
                /\ \A k \in DOMAIN remote :
                      /\ result[k].ID = remote[k].ID
                      /\ result[k].Name = remote[k].Name
                      /\ result[k].Path = remote[k].Path
                      /\ result[k].Selected =
                            (\E j \in DOMAIN saved :
                                saved[j].ID = remote[k].ID /\ saved[j].Selected)
                /\ \A j \in DOMAIN saved :
                      (\A k \in DOMAIN remote : remote[k].ID # saved[j].ID) =>
                         \A k \in DOMAIN result : result[k].ID # saved[j].ID]_vars

\* a merge in remote order of a listing with a file that has no persisted entry
\* over a persisted list with a selected entry
C14_Witness ==
    \E p \in Users :
       /\ pc[p] = "done" /\ loc[p].trace = <<[err |-> FALSE, files |-> <<RemoteB, RemoteA>>]>>
       /\ PersistedFiles(fs) = <<SelectedFile(RemoteA, TRUE)>>
       /\ loc[p].value = <<SelectedFile(RemoteB, FALSE), SelectedFile(RemoteA, TRUE)>>

\* C15: round trip of the selection list. A SaveFiles(X) that returned nil has
\* left a config on disk from which loadConfig, which reads nothing but the
\* disk and so does the same in a service constructed afterwards, decodes a
\* files list equal to X, element for element and in the same order.
C15_SaveLoadRoundTrip ==
    [][\A p \in Users :
         pc[p] = "saveWrite" /\ pc'[p] = "done" /\ loc'[p].err = "nil" =>
            LET X == loc[p].arg
                loaded == loadConfig(fs')
            IN  /\ loaded.ok
                /\ Len(loaded.config.Files) = Len(X)
                /\ \A k \in DOMAIN X : loaded.config.Files[k] = X[k]]_vars

\* a list of two entries with different flags was saved over the config of an
\* earlier run and is what the disk holds
C15_Witness ==
    \E p \in Users :
       /\ pc[p] = "done" /\ loc[p].err = "nil"
       /\ IsFile(fs, configPath)
       /\ fs.files[configPath].kind = "json"
       /\ PersistedFiles(fs) = <<SelectedFile(RemoteA, FALSE), SelectedFile(RemoteB, TRUE)>>
       /\ fs.files[configPath].doc.files =
             <<RequestFile(RemoteA, FALSE), RequestFile(RemoteB, TRUE)>>
       /\ "lastSyncTime" \in DOMAIN fs.files[configPath].doc

\* the age of the stored code verifier on disk f at time t
VerifierAge(f, t) == t - f.files[verifierPath].mtime

\* the credential file is the same on both disks
SameCredentials(f, g) ==
    /\ IsFile(f, tokensPath) <=> IsFile(g, tokensPath)
    /\ IsFile(f, tokensPath) => f.files[tokensPath] = g.files[tokensPath]

\* C16: a code verifier older than 15 minutes (one tick) is never accepted:
\* HandleCallback fails, sends nothing to the token endpoint, leaves the
\* credential file as it was and removes the verifier; a provider constructed
\* over such a verifier removes it, and keeps one that is not older; a missing
\* verifier makes HandleCallback fail; a verifier not older than 15 minutes is
\* the one sent to the token endpoint with the exchange.
C16_VerifierExpires ==
    [][/\ \A p \in Users :
            /\ pc[p] = "cbLoad" /\ pc'[p] # pc[p] =>
                  IF ~IsFile(fs, verifierPath)
                  THEN /\ pc'[p] = "done" /\ loc'[p].err # "nil"
                       /\ loc'[p].trace = <<>>
                       /\ fs' = fs
                  ELSE IF VerifierAge(fs, now) > 1
                  THEN /\ pc'[p] = "done" /\ loc'[p].err # "nil"
                       /\ loc'[p].trace = <<>>
                       /\ ~Exists(fs', verifierPath)
                       /\ SameCredentials(fs, fs')
                  ELSE /\ pc'[p] = "cbExchange"
                       /\ loc'[p].verifier = fs.files[verifierPath].value
            /\ pc[p] = "cbExchange" /\ pc'[p] # pc[p] =>
                  /\ Len(loc'[p].trace) = 1
                  /\ loc'[p].trace[1].grant = "authorization_code"
                  /\ loc'[p].trace[1].secret = loc[p].verifier
       /\ budget' < budget /\ now' = now
          /\ loc'["u1"].trace = <<[call |-> "NewOneDriveProvider"]>> =>
            IF IsFile(fs, verifierPath) /\ VerifierAge(fs, now) > 1
            THEN ~Exists(fs', verifierPath) /\ SameCredentials(fs, fs')
            ELSE fs' = fs]_vars

\* a callback found a verifier written two ticks earlier and rejected it
C16_Witness ==
    \E p \in Users :
       /\ pc[p] = "done" /\ loc[p].err = "code verifier expired"
       /\ IsFile(loc[p].snap, verifierPath)
       /\ VerifierAge(loc[p].snap, now) >= 2
       /\ ~Exists(fs, verifierPath)
       /\ loc[p].trace = <<>>

\* C17: a HandleCallback that returns nil has persisted the credentials it
\* exchanged and deleted the verifier, so the verifier is used once: nothing
\* but GetAuthURL stores a verifier, and a HandleCallback that finds none
\* fails without a request to the token endpoint.
C17_VerifierSingleUse ==
    [][\A p \in Users :
         /\ pc[p] \in {"cbLoad", "cbExchange", "cbStore"} /\ pc'[p] = "done" =>
               loc'[p].err # "nil"
         /\ pc[p] = "cbDelete" /\ pc'[p] # pc[p] =>
               /\ pc'[p] = "done" /\ loc'[p].err = "nil"
               /\ ~Exists(fs', verifierPath)
               /\ loadTokens(fs').ok
               /\ loadTokens(fs').t.AccessToken = loc'[p].trace[1].body.access_token
               /\ loadTokens(fs').t.RefreshToken = loc'[p].trace[1].body.refresh_token
               /\ loc'[p].trace[1].status = 200
         /\ ~Exists(fs, verifierPath) /\ Exists(fs', verifierPath) =>
               \E q \in Users : pc[q] = "authStore" /\ pc'[q] = "done"
         /\ pc[p] = "cbLoad" /\ pc'[p] # pc[p] /\ ~Exists(fs, verifierPath) =>
               pc'[p] = "done" /\ loc'[p].err # "nil" /\ loc'[p].trace = <<>>]_vars

\* the only verifier ever generated was exchanged for the tokens on disk, and
\* the callback after that one has failed
C17_Witness ==
    \E p \in Users :
       /\ pc[p] = "done" /\ loc[p].err = "stat failed"
       /\ serial = 3
       /\ loadTokens(fs).ok
       /\ loadTokens(fs).t.AccessToken = <<"tok", 2>>
       /\ loadTokens(loc[p].snap).t.AccessToken = <<"tok", 2>>
       /\ ~Exists(fs, verifierPath)

\* the call returned nil after one request of the given grant type to the token
\* endpoint
ReturnedNilAfter(h, grant) ==
    /\ h.err = "nil"
    /\ Len(h.trace) = 1
    /\ "grant" \in DOMAIN h.trace[1]
    /\ h.trace[1].grant = grant

\* C18: whenever HandleCallback has returned nil, the next
\* GetConnectionStatus(attemptRefresh=false) reports connected=true, whatever
\* the token endpoint answered with its success status.
C18_CallbackConnects ==
    [][\A p \in Users :
         /\ pc[p] = "gsLoad" /\ pc'[p] = "done"
         /\ loc[p].arg = FALSE
         /\ ReturnedNilAfter(loc[p].prev, "authorization_code")
         => loc'[p].value.Connected]_vars

\* a GetConnectionStatus returns in this step
StatusReturns(p) ==
    /\ pc'[p] = "done"
    /\ \/ pc[p] = "gsLoad"
       \/ /\ pc[p] \in {"gvLoad", "gvRefresh", "gvStore"}
          /\ loc[p].caller = "GetConnectionStatus"

\* C19: when the access token is expired and the token endpoint rejects the
\* refresh token with invalid_grant, GetConnectionStatus(attemptRefresh=true)
\* returns needsReauth=true and the credential file is the one the call found,
\* neither deleted nor modified; no step but the provider's Disconnect makes
\* the credential file disappear.
C19_InvalidGrantNeedsReauth ==
    [][/\ \A p \in Users :
            /\ pc[p] = "gvRefresh" /\ StatusReturns(p)
            /\ loc'[p].trace[1].status # 200
            /\ loc'[p].trace[1].body.error = "invalid_grant"
            => /\ loc'[p].err = "nil"
               /\ loc'[p].value.NeedsReauth
               /\ IsFile(fs', tokensPath)
               /\ SameCredentials(fs, fs')
               /\ SameCredentials(loc[p].snap, fs')
       /\ IsFile(fs, tokensPath) /\ ~IsFile(fs', tokensPath) =>
            \E q \in Users : pc[q] = "pdTokens" /\ pc'[q] = "pdVerifier"]_vars

\* a status check has returned after the endpoint rejected the refresh token of
\* the expired credentials, which are still on disk
C19_Witness ==
    \E p \in Users :
       /\ pc[p] = "done" /\ Len(loc[p].trace) = 2
       /\ loc[p].caller = "GetConnectionStatus"
       /\ "grant" \in DOMAIN loc[p].trace[1]
       /\ loc[p].trace[1].grant = "refresh_token"
       /\ loc[p].trace[1].secret = PriorTokens.RefreshToken
       /\ loc[p].trace[1].status = 400
       /\ loc[p].trace[1].body.error = "invalid_grant"
       /\ loc[p].value.NeedsReauth
       /\ fs = TokensDisk(PriorTokens)

\* C20: GetConnectionStatus(attemptRefresh=true) sets needsReauth=true only
\* when the persisted expiry does not parse or the token endpoint rejected the
\* refresh token; a refresh that failed for a transient reason (no answer, an
\* error answer other than invalid_grant) does not produce needsReauth=true.
C20_ReauthOnlyWhenRejected ==
    [][\A p \in Users :
         StatusReturns(p)
         /\ loc'[p].value.NeedsReauth
         => \/ LET r == loadTokens(loc[p].snap) IN r.ok /\ ~ParsesRFC3339(r.t.ExpiresAt)
            \/ /\ Len(loc'[p].trace) = 2
               /\ loc'[p].trace[1].status = 400
               /\ loc'[p].trace[1].body.error = "invalid_grant"]_vars

\* C21: for every persisted credential state and both values of attemptRefresh:
\* with no credential file, or an empty accessToken or refreshToken,
\* GetConnectionStatus returns connected=false and needsReauth=false; with both
\* tokens present and an expiresAt that is no timestamp, the empty string
\* included, it returns needsReauth=true.
C21_StatusOfCredentials ==
    [][\A p \in Users :
         StatusReturns(p) =>
            LET found == loc[p].snap
                doc == found.files[tokensPath].doc
            IN  IF ~IsFile(found, tokensPath)
                THEN ~loc'[p].value.Connected /\ ~loc'[p].value.NeedsReauth
                ELSE IF doc.accessToken = <<>> \/ doc.refreshToken = <<>>
                THEN ~loc'[p].value.Connected /\ ~loc'[p].value.NeedsReauth
                ELSE Len(doc.expiresAt) # 1 => loc'[p].value.NeedsReauth]_vars

\* a goroutine between the Lock of tokenMutex and its Unlock
InTokenSection(p) == pc[p] \in {"gvLoad", "gvRefresh", "gvStore"}

\* the number the token endpoint gave the refresh token of the credential file
RefreshSerial(f) == loadTokens(f).t.RefreshToken[2]

\* C22: at most one read-check-refresh-write sequence of getValidAccessToken is
\* in progress at any time, whatever callers overlap, and no store of a refresh
\* writes a refresh token that the token endpoint issued earlier than the one
\* it replaces on disk.
C22_RefreshSerialized ==
    [][/\ \A p, q \in Users : InTokenSection(p)' /\ InTokenSection(q)' => p = q
       /\ \A p \in Users : InTokenSection(p)' => tokenMutex' = p
       /\ \A p \in Users :
            /\ pc[p] = "gvStore" /\ pc'[p] = "done"
            /\ loadTokens(fs).ok /\ loadTokens(fs').ok
            /\ loadTokens(fs).t.RefreshToken # EmptyString
            => RefreshSerial(fs') >= RefreshSerial(fs)]_vars

\* two overlapping status checks have both refreshed: the second one sent the
\* refresh token the first one stored, and its own is on disk
C22_Witness ==
    /\ pc["u1"] = "done" /\ pc["u2"] = "done"
    /\ Len(loc["u1"].trace) = 2 /\ Len(loc["u2"].trace) = 2
    /\ loc["u1"].snap = TokensDisk(PriorTokens)
    /\ loc["u2"].snap = TokensDisk(PriorTokens)
    /\ loc["u1"].trace[1].secret = <<"tok", 0>>
    /\ loc["u2"].trace[1].secret = <<"tok", 2>>
    /\ loadTokens(fs).ok
    /\ loadTokens(fs).t.RefreshToken = <<"tok", 4>>

\* C23: a silent refresh that succeeded persists a credential with the access
\* token and the expiry of the answer, with accountName and accountEmail as
\* they were, and with the refresh token of the answer when it carries one,
\* the old refresh token when it carries none.
C23_RefreshKeepsRefreshToken ==
    [][\A p \in Users :
         /\ pc[p] = "gvStore" /\ pc'[p] = "done"
         /\ loc'[p].trace[2].getValidAccessToken = "nil"
         => LET old == loadTokens(loc[p].snap).t
                body == loc[p].trace[1].body
                new == loadTokens(fs').t
            IN  /\ loadTokens(fs').ok
                /\ new.AccessToken = body.access_token
                /\ new.AccessToken # old.AccessToken
                /\ ParsesRFC3339(new.ExpiresAt)
                /\ ParseRFC3339(new.ExpiresAt) >= ParseRFC3339(old.ExpiresAt) + body.expires_in
                /\ ParseRFC3339(new.ExpiresAt) =< now + body.expires_in
                /\ new.RefreshToken = IF body.refresh_token = EmptyString
                                      THEN old.RefreshToken ELSE body.refresh_token
                /\ new.AccountName = old.AccountName
                /\ new.AccountEmail = old.AccountEmail]_vars

\* a refresh whose answer carried no refresh token has returned: the new access
\* token is on disk next to the refresh token and the account of the earlier run
C23_Witness ==
    \E p \in Users :
       /\ pc[p] = "done" /\ Len(loc[p].trace) = 2
       /\ "grant" \in DOMAIN loc[p].trace[1]
       /\ loc[p].trace[1].grant = "refresh_token"
       /\ loc[p].trace[1].status = 200
       /\ loc[p].trace[1].body.json
       /\ loc[p].trace[1].body.refresh_token = EmptyString
       /\ loc[p].trace[2].getValidAccessToken = "nil"
       /\ loadTokens(fs).ok
       /\ loadTokens(fs).t = [PriorTokens EXCEPT !.AccessToken = <<"tok", 1>>,
                                                 !.ExpiresAt = FormatRFC3339(2)]

\* the call was a Disconnect of the provider that returned nil
DisconnectedNil(h) == h.err = "nil" /\ h.trace = <<[call |-> "Disconnect"]>>

C25_CheapStatusIsPureRead ==
    [][\A p \in Users :
         pc[p] = "gsLoad" /\ pc'[p] # pc[p] /\ loc[p].arg = FALSE
         => /\ pc'[p] = "done"
            /\ loc'[p].err = "nil"
            /\ loc'[p].trace = <<>>
            /\ fs' = fs /\ fs' = loc[p].snap
            /\ tokenMutex' = tokenMutex /\ serial' = serial]_vars

\* a cheap status check has answered connected over credentials whose access
\* token expired, which are still on disk
C25_Witness ==
    \E p \in Users :
       /\ pc[p] = "done" /\ loc[p].err = "nil"
       /\ loc[p].trace = <<>> /\ loc[p].caller = None
       /\ loc[p].snap = TokensDisk(PriorTokens)
       /\ fs = TokensDisk(PriorTokens)
       /\ now > ParseRFC3339(PriorTokens.ExpiresAt)
       /\ loc[p].value.Connected

\* the periodic goroutine outside Sync: waiting for a tick, checking the
\* status, publishing the next time
InLoop(l) == l \in {"loopWait", "loopCheck", "loopNext"}

\* C26: the periodic goroutine enters Sync at a tick exactly when the cheap
\* status check of that tick returned no error and connected=true; otherwise
\* it goes on to wait for the next tick, and none of its steps outside Sync
\* changes the disk or downloads anything; it leaves its wait only by taking a
\* tick out of the ticker's channel, and the ticker puts one in only when time
\* reaches its next due time, which then moves on by the fixed interval.
C26_TickSyncsIffConnected ==
    [][/\ pc[Loop] = "loopCheck" /\ pc'[Loop] # pc[Loop] =>
            /\ pc'[Loop] \in {"syncLock", "loopNext"}
            /\ pc'[Loop] = "syncLock" <=>
                   loc'[Loop].prev.err = "nil" /\ loc'[Loop].status.Connected
            /\ loc'[Loop].status.Connected = connected
       /\ InLoop(pc[Loop]) /\ pc'[Loop] # pc[Loop] =>
            fs' = fs /\ loc'[Loop].trace = <<>> /\ loc'[Loop].results = <<>>
       /\ pc[Loop] = "loopWait" /\ pc'[Loop] # pc[Loop] =>
            pc'[Loop] = "loopCheck" /\ ticker.pending /\ ~ticker'.pending
       /\ pc[Loop] = "loopNext" /\ pc'[Loop] # pc[Loop] =>
            pc'[Loop] = "loopWait" /\ ticker' = ticker
            /\ nextSyncAt' = now + defaultSyncInterval
       /\ ticker'.next # ticker.next \/ (ticker'.pending /\ ~ticker.pending) =>
            /\ now' > now /\ now' >= ticker.next
            /\ ticker'.pending
            /\ ticker'.next = ticker.next + defaultSyncInterval]_vars

\* the periodic goroutine skipped a tick on a backend that is not connected and
\* waits again, with no tick left in the channel, over the disk of the start
C26_Witness ==
    /\ pc[Loop] = "loopWait" /\ ~ticker.pending
    /\ now = 2 /\ nextSyncAt = now + defaultSyncInterval
    /\ ~connected
    /\ fs \in InitialDisks
    /\ budget = MaxOps - 1

\* C27: once Stop has returned, the periodic goroutine has terminated: it is
\* not inside a Sync and it starts none.
C27_StopAwaitsLoop ==
    cancelled => pc[Loop] = "stopped"

\* once Stop has returned, no periodic Sync is in progress
C27_NoSyncAfterStop ==
    cancelled => ~InSyncBody(Loop)

\* once Stop has returned, the periodic goroutine starts no Sync
C27_NoSyncStartsAfterStop ==
    [][cancelled /\ pc[Loop] # "syncLock" => pc'[Loop] # "syncLock"]_vars

\* the root settings.json is missing, unreadable, no JSON or without a baseUrl
BadRootSettings(f) == ~f.exists \/ ~f.readable \/ ~f.json \/ f.field = EmptyString

\* C28: Discover returns an error, and no provider, exactly when the root
\* settings file is missing, unreadable, not valid JSON or has an empty
\* baseUrl; for every other safes directory it returns a nil error.
C28_DiscoverErrorIffBadRoot ==
    pc["u1"] = "done"
    => /\ loc["u1"].value.err # "nil" <=> BadRootSettings(loc["u1"].arg.root)
       /\ loc["u1"].value.err # "nil" => loc["u1"].value.providers = {}

\* the same for the safes directories that can be listed
C28_ListableOnly ==
    pc["u1"] = "done" /\ loc["u1"].arg.listable
    => /\ loc["u1"].value.err # "nil" <=> BadRootSettings(loc["u1"].arg.root)
       /\ loc["u1"].value.err # "nil" => loc["u1"].value.providers = {}

\* the names a correct discovery keeps: subdirectories with a registered
\* factory and a readable settings.json on which the factory, called with the
\* directory's path, the root baseUrl and the bytes, succeeds
Discoverable(input) ==
    { k \in 1..Len(EntryNames) :
        /\ input.entries[k].kind = "dir"
        /\ EntryNames[k] \in factories
        /\ input.entries[k].settings.exists /\ input.entries[k].settings.readable
        /\ Factory(EntryNames[k], Join(safesDirectory, << <<EntryNames[k]>> >>),
                   input.root.field, input.entries[k].settings).err = "nil" }

\* C29: with valid root settings, the providers Discover returns with a nil
\* error are exactly those of the subdirectories that have a registered
\* factory and a readable settings.json and whose factory succeeds on the
\* directory's path, the root baseUrl and the settings bytes, each created
\* from these three; no other entry, skipped or failing, changes that.
C29_DiscoverExactlyTheValid ==
    pc["u1"] = "done" /\ loc["u1"].value.err = "nil"
    => LET input == loc["u1"].arg IN
       /\ ~BadRootSettings(input.root)
       /\ loc["u1"].value.providers =
             { Factory(EntryNames[k], Join(safesDirectory, << <<EntryNames[k]>> >>),
                       input.root.field, input.entries[k].settings).provider :
               k \in Discoverable(input) }

\* Discover has returned the mock backend alone: the backend before it has
\* settings its factory rejects, and an unknown folder follows
C29_Witness ==
    /\ pc["u1"] = "done"
    /\ loc["u1"].value.err = "nil"
    /\ loc["u1"].arg.entries[1] = [kind |-> "dir", settings |-> SettingsFile(TRUE, TRUE, TRUE, EmptyString)]
    /\ loc["u1"].arg.entries[3].kind = "dir"
    /\ {p.id : p \in loc["u1"].value.providers} = {"testprovider"}

\* C30: a goroutine about to read the selection/sync-time file without a lock
\* (ListFiles, the load of SaveFiles) finds, when the file exists, a complete
\* document, the one before or the one after a write, never a file that a
\* writer has truncated or written in part.
C30_ReadersSeeCompleteConfig ==
    \A p \in Users :
       pc[p] \in {"listLoad", "saveLoad"} /\ IsFile(fs, configPath)
       => fs.files[configPath].kind = "json"

\* the goroutine takes a step of the body of Sync
SyncStep(p) == InSyncBody(p) /\ (pc'[p] # pc[p] \/ loc'[p] # loc[p])

\* C31: no step of a Sync removes a file whose name starts with a dot: the
\* state files of the mirror directory (.tokens.json, .code_verifier,
\* .config.json) and hidden safes are still there after the step, and the only
\* one of them whose content the step may change is .config.json.
C31_SyncKeepsDotFiles ==
    [][\A p \in Procs :
         SyncStep(p) =>
            \A x \in DOMAIN fs.files :
               HasDotPrefix(Base(x)) =>
                  /\ IsFile(fs', x)
                  /\ x # configPath => fs'.files[x] = fs.files[x]]_vars

\* a Sync has removed the mirrored copy of a file that is no longer selected
\* and stamped the config file, and the hidden safe and the provider's state
\* files are as the earlier run left them
C31_Witness ==
    \E p \in Procs :
       /\ pc[p] = Return(p) /\ loc[p].err = "nil"
       /\ ~IsFile(fs, getLocalPath(RemoteA))
       /\ IsFile(fs, getLocalPath(RemoteB))
       /\ IsFile(fs, HiddenSafe) /\ fs.files[HiddenSafe] = PriorDisk.files[HiddenSafe]
       /\ IsFile(fs, providerTokensPath)
       /\ fs.files[providerTokensPath] = PriorDisk.files[providerTokensPath]
       /\ IsFile(fs, providerVerifierPath)
       /\ fs.files[providerVerifierPath] = PriorDisk.files[providerVerifierPath]
       /\ IsFile(fs, configPath)
       /\ loadConfig(fs).ok
       /\ loadConfig(fs).config.LastSyncTime = FormatRFC3339(now)

\* nextSyncAt is written by the periodic goroutine alone, when it has processed
\* a tick, and it is then the current time plus the interval
NextSyncAtSetAfterTick ==
    [][/\ pc[Loop] = "loopNext" /\ pc'[Loop] # pc[Loop] =>
            nextSyncAt' = now + defaultSyncInterval
       /\ nextSyncAt' # nextSyncAt => pc[Loop] = "loopNext" /\ pc'[Loop] = "loopWait"]_vars

\* C32: when the periodic goroutine has processed a tick, whether its Sync ran,
\* was skipped or failed, it sets nextSyncAt to the current time plus the
\* interval, and no manual Sync or other request changes nextSyncAt; the next
\* periodic attempt occurs at the time nextSyncAt names, not before it.
C32_NextSyncAtIsNextAttempt ==
    [][/\ pc[Loop] = "loopNext" /\ pc'[Loop] # pc[Loop] =>
            nextSyncAt' = now + defaultSyncInterval
       /\ nextSyncAt' # nextSyncAt => pc[Loop] = "loopNext" /\ pc'[Loop] = "loopWait"
       /\ pc[Loop] = "loopWait" /\ pc'[Loop] = "loopCheck" => now >= nextSyncAt]_vars

\* the verifier files of a disk
StoredVerifiers(f) == {x \in DOMAIN f.files : f.files[x].kind = "text"}

\* the goroutine's GetAuthURL returns its URL in this step
AuthURLReturned(p) == pc[p] = "authStore" /\ pc'[p] = "done" /\ loc'[p].err = "nil"

\* C33: GetAuthURL succeeds any number of times; each success stores a verifier
\* that was never stored before, in place of the stored one, so the disk holds at
\* most one verifier and it is the one whose challenge is in the URL returned
\* last: nothing but a GetAuthURL puts a verifier on the disk or changes it. A
\* callback reads that verifier and sends it with its exchange.
C33_LatestVerifier ==
    [][/\ Cardinality(StoredVerifiers(fs')) <= 1
       /\ \A p \in Users :
            /\ AuthURLReturned(p) =>
                  /\ StoredVerifiers(fs') = {verifierPath}
                  /\ generateCodeChallenge(fs'.files[verifierPath].value) = loc'[p].value
                  /\ \A x \in StoredVerifiers(fs) :
                        fs.files[x].value # fs'.files[verifierPath].value
            /\ pc[p] = "cbLoad" /\ pc'[p] = "cbExchange" =>
                  /\ IsFile(fs, verifierPath)
                  /\ loc'[p].verifier = fs.files[verifierPath].value
            /\ pc[p] = "cbExchange" /\ pc'[p] # pc[p] =>
                  /\ loc'[p].trace[Len(loc'[p].trace)].grant = "authorization_code"
                  /\ loc'[p].trace[Len(loc'[p].trace)].secret = loc[p].verifier
       /\ (\E x \in StoredVerifiers(fs') :
              x \notin StoredVerifiers(fs) \/ fs'.files[x].value # fs.files[x].value) =>
            \E q \in Users : AuthURLReturned(q)]_vars

\* the second GetAuthURL replaced the verifier of the first, and the callback
\* after it exchanged its code with the second verifier and returned nil
C33_Witness ==
    \E p \in Users :
       /\ pc[p] = "done" /\ loc[p].err = "nil"
       /\ ReturnedNilAfter(loc[p], "authorization_code")
       /\ loc[p].trace[1].secret = generateCodeVerifier(2)
       /\ loc[p].prev.err = "nil" /\ loc[p].prev.trace = <<>>

\* the files that exist on one of the two disks only: created, removed, or
\* either end of a rename
CreatedOrRemoved(f, g) ==
    {x \in DOMAIN f.files \cup DOMAIN g.files : x \notin DOMAIN f.files \/ x \notin DOMAIN g.files}

\* C34: whatever the path and the name of the persisted selection entries, '..'
\* segments included, every file that a step of a Sync creates, renames or
\* removes lies inside the mirror directory {root}/{backendID}.
C34_SyncStaysInMirror ==
    [][\A p \in Procs :
         SyncStep(p) =>
            \A x \in CreatedOrRemoved(fs, fs') : IsPrefix(providerDir, x)]_vars

\* C35: GetProviderStatus, ListFiles and SaveFiles end with a result or an error
\* value also when .config.json exists and cannot be read or decoded: no request
\* ends in a panic on the missing config value.
C35_NoCrashOnBadConfig ==
    \A p \in Users : pc[p] = "done" => loc[p].err # "panic"

\* the local paths of the files the Sync of a goroutine found selected
SelectedCopies(p) ==
    {getLocalPath(loc[p].selectedFiles[k]) : k \in DOMAIN loc[p].selectedFiles}

\* C36: no step of a Sync removes the local copy of a file it found selected,
\* and it changes the copy's content only by the rename that ends that file's
\* successful download: after a failed download the copy of an earlier Sync is
\* there with its earlier content. What a Sync removes is a .psafe3 file outside
\* the selected set, or the temporary file of a download of its own.
C36_SyncKeepsSelectedCopies ==
    [][\A p \in Procs :
         SyncStep(p) =>
            /\ \A x \in SelectedCopies(p) \cap DOMAIN fs.files :
                  /\ x \in DOMAIN fs'.files
                  /\ fs'.files[x] # fs.files[x] =>
                        /\ pc[p] = "syncCopy"
                        /\ x = getLocalPath(CurrentFile(p))
                        /\ loc'[p].results[Len(loc'[p].results)].Success
            /\ \A x \in DOMAIN fs.files \ DOMAIN fs'.files :
                  \/ HasPsafe3Suffix(Base(x)) /\ x \notin SelectedCopies(p)
                  \/ \E y \in SelectedCopies(p) : x = TmpPath(y)]_vars

\* a Sync over the mirror of an earlier run returned nil: the download of the
\* first selected file failed and its copy is the earlier one, the second file
\* was downloaded anew
C36_Witness ==
    \E p \in Procs :
       /\ pc[p] = Return(p) /\ loc[p].err = "nil"
       /\ Len(loc[p].results) = 2
       /\ ~loc[p].results[1].Success /\ loc[p].results[2].Success
       /\ IsFile(fs, getLocalPath(RemoteA))
       /\ fs.files[getLocalPath(RemoteA)] = PriorDisk.files[getLocalPath(RemoteA)]
       /\ IsFile(fs, getLocalPath(RemoteB))
       /\ fs.files[getLocalPath(RemoteB)] = Content(RemoteB.ID, now)

\* the .psafe3 files in the mirror directory
MirroredSafes(f) ==
    {x \in DOMAIN f.files : IsPrefix(providerDir, x) /\ HasPsafe3Suffix(Base(x))}

\* the Disconnect of the request has returned nil and the request has made no
\* other call since
DisconnectReturned(p) ==
    /\ pc[p] = "done"
    /\ loc[p].err = "nil"
    /\ loc[p].trace = <<[call |-> "provider.Disconnect"]>>

\* C37: once Disconnect has returned, and as long as no SaveFiles and no Sync
\* started after it has run, .config.json does not exist and the mirror holds no
\* .psafe3 file, also when a Sync was under way while Disconnect ran.
C37_DisconnectStays ==
    DisconnectReturned("u1") =>
       /\ ~Exists(fs, configPath)
       /\ MirroredSafes(fs) = {}

\* C38: once the provider's Disconnect has returned, and as long as no
\* HandleCallback has succeeded after it, the credential file does not exist,
\* also when a token refresh of another request was under way while Disconnect
\* ran.
C38_DisconnectedStays ==
    pc["u1"] = "done" /\ DisconnectedNil(loc["u1"]) => ~Exists(fs, tokensPath)

\* the request of the goroutine's trace that refreshed the given refresh token
\* successfully
RefreshesOf(p, secret) ==
    {k \in DOMAIN loc[p].trace :
        /\ "grant" \in DOMAIN loc[p].trace[k]
        /\ loc[p].trace[k].grant = "refresh_token"
        /\ loc[p].trace[k].secret = secret
        /\ loc[p].trace[k].status = 200}

\* C39: when a HandleCallback has returned nil and the token refresh of the
\* other request that overlapped it has returned as well, the credential file
\* holds the tokens of the callback, or tokens that a refresh obtained with the
\* callback's refresh token: a refresh that read the credential of before the
\* callback does not overwrite the callback's.
C39_CallbackCredentialStays ==
    /\ pc["u1"] = "done" /\ ReturnedNilAfter(loc["u1"], "authorization_code")
    /\ pc["u2"] \in {"idle", "done"}
    => /\ loadTokens(fs).ok
       /\ \/ loadTokens(fs).t.AccessToken = loc["u1"].trace[1].body.access_token
          \/ /\ loc["u1"].trace[1].body.refresh_token # EmptyString
             /\ \E k \in RefreshesOf("u2", loc["u1"].trace[1].body.refresh_token) :
                   loadTokens(fs).t.AccessToken = loc["u2"].trace[k].body.access_token

\* the positions inside Sync and inside GetProviderStatus
SyncPcs ==
    {"syncLock", "syncCheck", "syncLoad", "syncFile", "syncToken", "syncDownload",
     "syncCopy", "syncCleanup", "syncWrite"}
StatPcs == {"statLock", "statBody", "statToken", "statNext", "statRead"}

HoldsNoLock(p) ==
    /\ syncMutex.w # p /\ p \notin syncMutex.r
    /\ nextSyncMutex.w # p /\ p \notin nextSyncMutex.r
    /\ tokenMutex # p

\* C40: in every interleaving of Syncs of requests, status queries, the
\* periodic loop and the token refreshes inside them, every Sync and every
\* GetProviderStatus that was called returns, and a goroutine outside these
\* calls, and outside the periodic loop's update of nextSyncAt, holds none of
\* syncMutex, nextSyncMutex and the token mutex: error returns and the panic on
\* a nil config release them as well.
C40_CallsReturn ==
    /\ [](\A p \in Procs :
            pc[p] \notin SyncPcs \cup StatPcs \cup {"loopPublish"} => HoldsNoLock(p))
    /\ \A p \in Procs : (pc[p] \in SyncPcs \cup StatPcs) ~> (pc[p] = Return(p))

\* one status query holds the token mutex, a second one waits for it, both hold
\* syncMutex for reading, and the periodic Sync waits for syncMutex
C40_Witness ==
    /\ pc["u1"] = "statToken" /\ tokenMutex = "u1"
    /\ pc["u2"] = "statBody"
    /\ syncMutex.r = {"u1", "u2"}
    /\ pc[Loop] = "syncLock"
====
